---------------------------- MODULE Spec2Model ----------------------------
(*
  Model of the data access and aggregation layer of the career platform:
  WorkNetAPI (static occupation catalog, optional external lookups),
  CareerDataManager (cached field listings, lookup, search, comparison,
  career path and education mapping), the charts of the comparison page
  (CareerVisualizer) and the session state the pages of the app keep (the
  comparison list, the search history).

  Specifications.  Spec: one caller of the manager.  SpecApi: a WorkNetAPI
  client with or without a credential.  SpecShared: the manager shared by
  the sessions, the others filling the cache.  SpecRace: get_industry_jobs
  line by line in several threads.  SpecPath: the career path projection
  on any record.  SpecPage: a run of the comparison page.  SpecPathPage: a
  run of the career path page.  SpecSession: the comparison list of one
  session under the buttons of the pages.  SpecCatalog: the callers of the
  manager and a session side by side.  SpecHistory: the search history of
  the job search page.

  Text.  A Python str is modelled as the sequence of its Unicode code
  points, so that substring search and case mapping are computed and not
  assumed.  Occupation codes are plain ASCII keys and are kept as TLA+
  strings; only equality is ever applied to them.  None is a value
  different from every str.  An empty dict and an empty list are both the
  empty function << >>.

  Catalog.  sample_jobs is read as the dict literal of lines 103-348 of
  data_manager.py.  The file as shipped closes the literal at line 293 and
  then continues with the BIO001 and ECO001 entries at lines 294-347; the
  model reads those entries as part of sample_jobs, which is what the
  module's own demonstration code (line 668) relies on.
*)
EXTENDS Integers, Sequences, FiniteSets, TLC

(* sample_jobs: the detailed records, keyed by occupation code. *)
sample_jobs ==
       "AI001" :> [
        job_code |-> "AI001",
        job_name |-> <<65, 73, 32, 50644, 51648, 45768, 50612>>,
        field |-> <<65, 73, 47, 48709, 45936, 51060, 53552>>,
        description |-> <<51064, 44277, 51648, 45733, 32, 50508, 44256, 47532, 51608, 51012,
            32, 44060, 48156, 54616, 44256, 32, 65, 73, 32, 49884, 49828, 53596, 51012, 32,
            44396, 52629, 54616, 45716, 32, 51204, 47928, 44032>>,
        main_tasks |-> <<<<47672, 49888, 47084, 45789, 32, 47784, 45944, 32, 44060, 48156,
            32, 48143, 32, 52572, 51201, 54868>>, <<46373, 47084, 45789, 32, 50508, 44256,
            47532, 51608, 32, 50672, 44396, 32, 48143, 32, 44396, 54788>>, <<65, 73, 32, 49884,
            49828, 53596, 32, 49444, 44228, 32, 48143, 32, 44396, 52629>>, <<45936, 51060,
            53552, 32, 51204, 52376, 47532, 32, 48143, 32, 48516, 49437>>>>,
        required_education |-> <<54617, 49324, 32, 51060, 49345, 32, 40, 52980, 54504,
            53552, 44277, 54617, 44, 32, 51064, 44277, 51648, 45733, 44, 32, 45936, 51060,
            53552, 49324, 51060, 50616, 49828, 32, 46321, 41>>,
        required_skills |-> <<<<80, 121, 116, 104, 111, 110, 44, 32, 84, 101, 110, 115, 111,
            114, 70, 108, 111, 119, 44, 32, 80, 121, 84, 111, 114, 99, 104>>, <<47672, 49888,
            47084, 45789, 47, 46373, 47084, 45789, 32, 51060, 47200>>, <<49688, 54617, 40,
            49440, 54805, 45824, 49688, 44, 32, 54869, 47456, 53685, 44228, 41>>, <<45936,
            51060, 53552, 32, 48516, 49437, 32, 45733, 47141>>>>,
        certifications |-> <<<<51221, 48372, 52376, 47532, 44592, 49324>>, <<48709, 45936,
            51060, 53552, 48516, 49437, 44592, 49324>>, <<65, 73, 32, 44288, 47144, 32, 51088,
            44201, 51613>>>>,
        salary_range |-> <<52, 44, 48, 48, 48, 47564, 50896, 32, 126, 32, 56, 44, 48, 48,
            48, 47564, 50896>>,
        outlook |-> <<47588, 50864, 32, 45458, 51020>>,
        growth_rate |-> <<50, 53, 37>>,
        employment_rate |-> <<57, 53, 37>>,
        related_majors |-> <<<<52980, 54504, 53552, 44277, 54617>>, <<51064, 44277, 51648,
            45733, 54617>>, <<45936, 51060, 53552, 49324, 51060, 50616, 49828>>, <<53685, 44228,
            54617>>, <<49688, 54617>>>>,
        high_school_subjects |-> <<<<49688, 54617>>, <<51221, 48372>>, <<44284, 54617, 40,
            47932, 47532, 41>>, <<50689, 50612>>>>,
        career_path |-> <<45824, 54617, 32, 51204, 44277, 32, 8594, 32, 49437, 49324, 40,
            49440, 53469, 41, 32, 8594, 32, 65, 73, 32, 50644, 51648, 45768, 50612, 32, 8594,
            32, 49884, 45768, 50612, 32, 65, 73, 32, 50644, 51648, 45768, 50612, 32, 8594, 32,
            65, 73, 32, 50672, 44396, 50896, 47, 47532, 45908>>]
    @@ "BIZ001" :> [
        job_code |-> "BIZ001",
        job_name |-> <<44221, 50689, 32, 52968, 49444, 53556, 53944>>,
        field |-> <<44221, 50689, 47, 52968, 49444, 54021>>,
        description |-> <<44592, 50629, 51032, 32, 44221, 50689, 32, 47928, 51228, 47484,
            32, 48516, 49437, 54616, 44256, 32, 44060, 49440, 32, 48169, 50504, 51012, 32,
            51228, 49884, 54616, 45716, 32, 51204, 47928, 44032>>,
        main_tasks |-> <<<<44592, 50629, 32, 54788, 54889, 32, 48516, 49437, 32, 48143, 32,
            51652, 45800>>, <<44221, 50689, 32, 51204, 47029, 32, 49688, 47549, 32, 48143, 32,
            51228, 50504>>, <<54532, 47196, 51229, 53944, 32, 44288, 47532, 32, 48143, 32,
            49892, 54665>>, <<49457, 44284, 32, 52769, 51221, 32, 48143, 32, 44060, 49440>>>>,
        required_education |-> <<54617, 49324, 32, 51060, 49345, 32, 40, 44221, 50689,
            54617, 44, 32, 44221, 51228, 54617, 32, 46321, 41>>,
        required_skills |-> <<<<51204, 47029, 51201, 32, 49324, 44256, 47141>>, <<45936,
            51060, 53552, 32, 48516, 49437, 32, 45733, 47141>>, <<54532, 47112, 51232, 53580,
            51060, 49496, 32, 49828, 53420>>, <<52964, 48036, 45768, 52992, 51060, 49496, 32,
            45733, 47141>>>>,
        certifications |-> <<<<44221, 50689, 51648, 46020, 49324>>, <<67, 80, 65>>, <<67,
            70, 65>>>>,
        salary_range |-> <<51, 44, 53, 48, 48, 47564, 50896, 32, 126, 32, 56, 44, 48, 48,
            48, 47564, 50896>>,
        outlook |-> <<45458, 51020>>,
        growth_rate |-> <<49, 53, 37>>,
        employment_rate |-> <<56, 53, 37>>,
        related_majors |-> <<<<44221, 50689, 54617>>, <<44221, 51228, 54617>>, <<49328,
            50629, 44277, 54617>>, <<53685, 44228, 54617>>>>,
        high_school_subjects |-> <<<<49688, 54617>>, <<49324, 54924>>, <<50689, 50612>>,
            <<44221, 51228>>>>,
        career_path |-> <<45824, 54617, 32, 51204, 44277, 32, 8594, 32, 52968, 49444, 54021,
            32, 54156, 32, 51077, 49324, 32, 8594, 32, 51452, 45768, 50612, 32, 52968, 49444,
            53556, 53944, 32, 8594, 32, 49884, 45768, 50612, 32, 52968, 49444, 53556, 53944, 32,
            8594, 32, 47588, 45768, 51200, 32, 8594, 32, 54028, 53944, 45320>>]
    @@ "PSY001" :> [
        job_code |-> "PSY001",
        job_name |-> <<51076, 49345, 49900, 47532, 49324>>,
        field |-> <<49900, 47532, 47, 49345, 45812>>,
        description |-> <<49900, 47532, 51201, 32, 47928, 51228, 47484, 32, 51652, 45800,
            54616, 44256, 32, 52824, 47308, 54616, 45716, 32, 51204, 47928, 44032>>,
        main_tasks |-> <<<<49900, 47532, 32, 54217, 44032, 32, 48143, 32, 51652, 45800>>,
            <<49900, 47532, 32, 52824, 47308, 32, 48143, 32, 49345, 45812>>, <<52824, 47308, 32,
            44228, 54925, 32, 49688, 47549>>, <<49324, 47168, 32, 44288, 47532, 32, 48143, 32,
            44592, 47197>>>>,
        required_education |-> <<49437, 49324, 32, 51060, 49345, 32, 40, 49900, 47532,
            54617, 41>>,
        required_skills |-> <<<<49900, 47532, 54617, 32, 51060, 47200, 32, 51648, 49885>>,
            <<49345, 45812, 32, 44592, 48277>>, <<44277, 44048, 32, 45733, 47141>>, <<50980,
            47532, 51201, 32, 54032, 45800, 47141>>>>,
        certifications |-> <<<<51076, 49345, 49900, 47532, 49324, 32, 49, 44553>>, <<51076,
            49345, 49900, 47532, 49324, 32, 50, 44553>>>>,
        salary_range |-> <<51, 44, 48, 48, 48, 47564, 50896, 32, 126, 32, 54, 44, 48, 48,
            48, 47564, 50896>>,
        outlook |-> <<45458, 51020>>,
        growth_rate |-> <<49, 50, 37>>,
        employment_rate |-> <<56, 48, 37>>,
        related_majors |-> <<<<49900, 47532, 54617>>, <<49345, 45812, 54617>>>>,
        high_school_subjects |-> <<<<49324, 54924>>, <<49373, 54876, 44284, 32, 50980,
            47532>>, <<50689, 50612>>>>,
        career_path |-> <<49900, 47532, 54617, 32, 54617, 49324, 32, 8594, 32, 49437, 49324,
            32, 54596, 49688, 32, 8594, 32, 51076, 49345, 49900, 47532, 49324, 32, 51088, 44201,
            51613, 32, 8594, 32, 48337, 50896, 47, 49468, 53552, 32, 44540, 47924, 32, 8594, 32,
            49688, 47144, 32, 8594, 32, 51204, 47928, 44032>>]
    @@ "ART001" :> [
        job_code |-> "ART001",
        job_name |-> <<85, 88, 47, 85, 73, 32, 46356, 51088, 51060, 45320>>,
        field |-> <<50696, 49696, 47, 46356, 51088, 51064>>,
        description |-> <<49324, 50857, 51088, 32, 44221, 54744, 44284, 32, 51064, 53552,
            54168, 51060, 49828, 47484, 32, 46356, 51088, 51064, 54616, 45716, 32, 51204, 47928,
            44032>>,
        main_tasks |-> <<<<49324, 50857, 51088, 32, 51312, 49324, 32, 48143, 32, 48516,
            49437>>, <<50752, 51060, 50612, 54532, 47112, 51076, 32, 48143, 32, 54532, 47196,
            53664, 53440, 51077, 32, 51228, 51089>>, <<85, 73, 32, 46356, 51088, 51064, 32,
            48143, 32, 44032, 51060, 46300, 32, 51089, 49457>>, <<49324, 50857, 49457, 32,
            53580, 49828, 53944, 32, 51652, 54665>>>>,
        required_education |-> <<54617, 49324, 32, 51060, 49345, 32, 40, 46356, 51088,
            51064, 44, 32, 49884, 44033, 46356, 51088, 51064, 32, 46321, 41>>,
        required_skills |-> <<<<70, 105, 103, 109, 97, 44, 32, 83, 107, 101, 116, 99, 104,
            44, 32, 65, 100, 111, 98, 101, 32, 88, 68>>, <<49324, 50857, 51088, 32, 51473,
            49900, 32, 46356, 51088, 51064>>, <<54532, 47196, 53664, 53440, 51060, 54609>>,
            <<46356, 51088, 51064, 32, 49884, 49828, 53596, 32, 44396, 52629>>>>,
        certifications |-> <<<<49884, 44033, 46356, 51088, 51064, 44592, 49324>>, <<52980,
            54504, 53552, 44536, 47000, 54589, 49828, 50868, 50857, 44592, 45733, 49324>>>>,
        salary_range |-> <<51, 44, 53, 48, 48, 47564, 50896, 32, 126, 32, 55, 44, 48, 48,
            48, 47564, 50896>>,
        outlook |-> <<47588, 50864, 32, 45458, 51020>>,
        growth_rate |-> <<50, 48, 37>>,
        employment_rate |-> <<57, 48, 37>>,
        related_majors |-> <<<<49884, 44033, 46356, 51088, 51064>>, <<49328, 50629, 46356,
            51088, 51064>>, <<46356, 51648, 53560, 48120, 46356, 50612, 46356, 51088, 51064>>>>,
        high_school_subjects |-> <<<<48120, 49696>>, <<51221, 48372>>, <<50689, 50612>>>>,
        career_path |-> <<45824, 54617, 32, 51204, 44277, 32, 8594, 32, 51452, 45768, 50612,
            32, 46356, 51088, 51060, 45320, 32, 8594, 32, 85, 88, 47, 85, 73, 32, 46356, 51088,
            51060, 45320, 32, 8594, 32, 49884, 45768, 50612, 32, 46356, 51088, 51060, 45320, 32,
            8594, 32, 46356, 51088, 51064, 32, 47532, 46300>>]
    @@ "SPT002" :> [
        job_code |-> "SPT002",
        job_name |-> <<49828, 54252, 52768, 32, 45936, 51060, 53552, 32, 48516, 49437,
            44032>>,
        field |-> <<52404, 50977, 47, 49828, 54252, 52768>>,
        description |-> <<49828, 54252, 52768, 32, 44221, 44592, 32, 48143, 32, 49440,
            49688, 32, 45936, 51060, 53552, 47484, 32, 48516, 49437, 54616, 50668, 32, 51204,
            47029, 51012, 32, 51228, 49884, 54616, 45716, 32, 51204, 47928, 44032>>,
        main_tasks |-> <<<<44221, 44592, 32, 45936, 51060, 53552, 32, 49688, 51665, 32,
            48143, 32, 48516, 49437>>, <<49440, 49688, 32, 54140, 54252, 47676, 49828, 32,
            48516, 49437>>, <<51204, 47029, 32, 49688, 47549, 32, 51648, 50896>>, <<45936,
            51060, 53552, 32, 49884, 44033, 54868, 32, 48143, 32, 47532, 54252, 54021>>>>,
        required_education |-> <<54617, 49324, 32, 51060, 49345, 32, 40, 52404, 50977,
            54617, 44, 32, 53685, 44228, 54617, 44, 32, 45936, 51060, 53552, 49324, 51060,
            50616, 49828, 32, 46321, 41>>,
        required_skills |-> <<<<80, 121, 116, 104, 111, 110, 44, 32, 82>>, <<53685, 44228,
            32, 48516, 49437>>, <<49828, 54252, 52768, 32, 51648, 49885>>, <<45936, 51060,
            53552, 32, 49884, 44033, 54868>>>>,
        certifications |-> <<<<48709, 45936, 51060, 53552, 48516, 49437, 44592, 49324>>,
            <<49373, 54876, 49828, 54252, 52768, 51648, 46020, 49324>>>>,
        salary_range |-> <<51, 44, 48, 48, 48, 47564, 50896, 32, 126, 32, 54, 44, 48, 48,
            48, 47564, 50896>>,
        outlook |-> <<45458, 51020>>,
        growth_rate |-> <<49, 56, 37>>,
        employment_rate |-> <<55, 53, 37>>,
        related_majors |-> <<<<52404, 50977, 54617>>, <<49828, 54252, 52768, 44284, 54617>>,
            <<53685, 44228, 54617>>, <<45936, 51060, 53552, 49324, 51060, 50616, 49828>>>>,
        high_school_subjects |-> <<<<49688, 54617>>, <<52404, 50977>>, <<51221, 48372>>>>,
        career_path |-> <<45824, 54617, 32, 51204, 44277, 32, 8594, 32, 45936, 51060, 53552,
            32, 48516, 49437, 32, 49892, 47924, 32, 8594, 32, 49828, 54252, 52768, 32, 54016,
            32, 48516, 49437, 44032, 32, 8594, 32, 49688, 49437, 32, 48516, 49437, 44032>>]
    @@ "EDU003" :> [
        job_code |-> "EDU003",
        job_name |-> <<50640, 46272, 53580, 53356, 32, 51204, 47928, 44032>>,
        field |-> <<44368, 50977>>,
        description |-> <<44368, 50977, 44284, 32, 44592, 49696, 51012, 32, 50997, 54633,
            54620, 32, 54617, 49845, 32, 49556, 47336, 49496, 51012, 32, 44060, 48156, 54616,
            45716, 32, 51204, 47928, 44032>>,
        main_tasks |-> <<<<44368, 50977, 50857, 32, 50545, 47, 54540, 47019, 54268, 32,
            44592, 54925>>, <<54617, 49845, 32, 53080, 53584, 52768, 32, 49444, 44228>>, <<65,
            73, 32, 44592, 48152, 32, 54617, 49845, 32, 49884, 49828, 53596, 32, 44060, 48156>>,
            <<44368, 50977, 32, 54952, 44284, 32, 48516, 49437>>>>,
        required_education |-> <<54617, 49324, 32, 51060, 49345, 32, 40, 44368, 50977,
            54617, 44, 32, 52980, 54504, 53552, 44277, 54617, 32, 46321, 41>>,
        required_skills |-> <<<<44368, 50977, 54617, 32, 51060, 47200>>, <<54532, 47196,
            44536, 47000, 48141, 32, 44592, 52488>>, <<85, 88, 47, 85, 73, 32, 46356, 51088,
            51064>>, <<54532, 47196, 51229, 53944, 32, 44288, 47532>>>>,
        certifications |-> <<<<44368, 49324, 32, 51088, 44201, 51613>>, <<51221, 48372,
            52376, 47532, 44592, 49324>>>>,
        salary_range |-> <<51, 44, 53, 48, 48, 47564, 50896, 32, 126, 32, 55, 44, 48, 48,
            48, 47564, 50896>>,
        outlook |-> <<47588, 50864, 32, 45458, 51020>>,
        growth_rate |-> <<50, 50, 37>>,
        employment_rate |-> <<56, 53, 37>>,
        related_majors |-> <<<<44368, 50977, 54617>>, <<44368, 50977, 44277, 54617>>,
            <<52980, 54504, 53552, 44277, 54617>>>>,
        high_school_subjects |-> <<<<49688, 54617>>, <<51221, 48372>>, <<49324, 54924>>,
            <<50689, 50612>>>>,
        career_path |-> <<45824, 54617, 32, 51204, 44277, 32, 8594, 32, 50640, 46272, 53580,
            53356, 32, 44592, 50629, 32, 51077, 49324, 32, 8594, 32, 53080, 53584, 52768, 32,
            44060, 48156, 51088, 32, 8594, 32, 54532, 47196, 45909, 53944, 32, 47588, 45768,
            51200>>]
    @@ "MDA001" :> [
        job_code |-> "MDA001",
        job_name |-> <<50976, 53916, 48260, 47, 53356, 47532, 50640, 51060, 53552>>,
        field |-> <<48120, 46356, 50612, 47, 53080, 53584, 52768>>,
        description |-> <<50689, 49345, 32, 53080, 53584, 52768, 47484, 32, 44592, 54925,
            44, 32, 51228, 51089, 44, 32, 50976, 53685, 54616, 45716, 32, 49, 51064, 32, 48120,
            46356, 50612, 32, 51204, 47928, 44032>>,
        main_tasks |-> <<<<53080, 53584, 52768, 32, 44592, 54925, 32, 48143, 32, 51228,
            51089>>, <<50689, 49345, 32, 52524, 50689, 32, 48143, 32, 54200, 51665>>, <<52292,
            45328, 32, 50868, 50689, 32, 48143, 32, 47560, 52992, 54021>>, <<49884, 52397,
            51088, 32, 49548, 53685, 32, 48143, 32, 44288, 47532>>>>,
        required_education |-> <<54617, 47141, 32, 47924, 44288, 32, 40, 44288, 47144, 32,
            54617, 44284, 32, 50864, 45824, 41>>,
        required_skills |-> <<<<50689, 49345, 32, 54200, 51665, 32, 40, 54532, 47532, 48120,
            50612, 44, 32, 54028, 51060, 45328, 52983, 41>>, <<44592, 54925, 47141, 32, 48143,
            32, 52285, 51032, 49457>>, <<52964, 48036, 45768, 52992, 51060, 49496, 32, 45733,
            47141>>, <<83, 78, 83, 32, 47560, 52992, 54021>>>>,
        certifications |-> <<<<48169, 49569, 54200, 51665, 44592, 49324, 40, 49440, 53469,
            41>>>>,
        salary_range |-> <<48320, 46041, 32, 53372, 32, 40, 50900, 32, 49, 48, 48, 47564,
            50896, 32, 126, 32, 49688, 52380, 47564, 50896, 41>>,
        outlook |-> <<45458, 51020>>,
        growth_rate |-> <<49, 53, 37>>,
        employment_rate |-> <<51088, 50689, 50629>>,
        related_majors |-> <<<<48169, 49569, 50689, 49345, 54617>>, <<48120, 46356, 50612,
            52964, 48036, 45768, 52992, 51060, 49496>>, <<50689, 54868, 54617>>>>,
        high_school_subjects |-> <<<<44397, 50612>>, <<50689, 50612>>, <<48120, 49696>>>>,
        career_path |-> <<53080, 53584, 52768, 32, 51228, 51089, 32, 49884, 51089, 32, 8594,
            32, 44396, 46021, 51088, 32, 54869, 48372, 32, 8594, 32, 49688, 51061, 54868, 32,
            8594, 32, 51204, 47928, 32, 53356, 47532, 50640, 51060, 53552, 32, 8594, 32, 77, 67,
            78, 32, 44228, 50557, 47, 44060, 51064, 32, 48652, 47004, 46300>>]
    @@ "BIO001" :> [
        job_code |-> "BIO001",
        job_name |-> <<48148, 51060, 50724, 51064, 54252, 47588, 54001, 49828, 32, 50672,
            44396, 50896>>,
        field |-> <<48148, 51060, 50724, 54764, 49828>>,
        description |-> <<49373, 47932, 54617, 32, 45936, 51060, 53552, 47484, 32, 52980,
            54504, 53552, 47196, 32, 48516, 49437, 54616, 50668, 32, 49373, 47749, 54788, 49345,
            51012, 32, 50672, 44396, 54616, 45716, 32, 51204, 47928, 44032>>,
        main_tasks |-> <<<<50976, 51204, 52404, 32, 45936, 51060, 53552, 32, 48516, 49437>>,
            <<48148, 51060, 50724, 32, 48709, 45936, 51060, 53552, 32, 52376, 47532>>, <<49373,
            47932, 51221, 48372, 32, 50508, 44256, 47532, 51608, 32, 44060, 48156>>, <<49888,
            50557, 32, 44060, 48156, 32, 51648, 50896>>>>,
        required_education |-> <<49437, 49324, 32, 51060, 49345, 32, 40, 49373, 47749,
            44284, 54617, 44, 32, 49373, 47932, 51221, 48372, 54617, 44, 32, 52980, 54504,
            53552, 44277, 54617, 32, 46321, 41>>,
        required_skills |-> <<<<80, 121, 116, 104, 111, 110, 44, 32, 82, 32, 54532, 47196,
            44536, 47000, 48141>>, <<49373, 47932, 54617, 32, 51648, 49885>>, <<53685, 44228,
            48516, 49437>>, <<45936, 51060, 53552, 48288, 51060, 49828, 32, 44288, 47532>>>>,
        certifications |-> <<<<49373, 47932, 44277, 54617, 44592, 49324>>, <<49373, 47749,
            44277, 54617, 44592, 49324>>>>,
        salary_range |-> <<51, 44, 53, 48, 48, 47564, 50896, 32, 126, 32, 55, 44, 48, 48,
            48, 47564, 50896>>,
        outlook |-> <<45458, 51020>>,
        growth_rate |-> <<49, 56, 37>>,
        employment_rate |-> <<56, 56, 37>>,
        related_majors |-> <<<<49373, 47749, 44284, 54617>>, <<49373, 47932, 51221, 48372,
            54617>>, <<48148, 51060, 50724, 44277, 54617>>, <<52980, 54504, 53552, 44277,
            54617>>>>,
        high_school_subjects |-> <<<<49373, 47749, 44284, 54617>>, <<54868, 54617>>,
            <<49688, 54617>>, <<51221, 48372>>>>,
        career_path |-> <<45824, 54617, 32, 51204, 44277, 32, 8594, 32, 49437, 49324, 32,
            54596, 49688, 32, 8594, 32, 50672, 44396, 50896, 32, 8594, 32, 49440, 51076, 50672,
            44396, 50896, 32, 8594, 32, 52293, 51076, 50672, 44396, 50896>>]
    @@ "ECO001" :> [
        job_code |-> "ECO001",
        job_name |-> <<49888, 51116, 49373, 50640, 45320, 51648, 32, 50644, 51648, 45768,
            50612>>,
        field |-> <<52828, 54872, 44221, 50640, 45320, 51648>>,
        description |-> <<53468, 50577, 44305, 44, 32, 54413, 47141, 32, 46321, 32, 49888,
            51116, 49373, 50640, 45320, 51648, 32, 49884, 49828, 53596, 51012, 32, 49444, 44228,
            54616, 44256, 32, 44288, 47532, 54616, 45716, 32, 51204, 47928, 44032>>,
        main_tasks |-> <<<<49888, 51116, 49373, 50640, 45320, 51648, 32, 49884, 49828,
            53596, 32, 49444, 44228>>, <<48156, 51204, 49548, 32, 50868, 50689, 32, 48143, 32,
            44288, 47532>>, <<50640, 45320, 51648, 32, 54952, 50984, 32, 48516, 49437>>,
            <<54872, 44221, 50689, 54693, 32, 54217, 44032>>>>,
        required_education |-> <<54617, 49324, 32, 51060, 49345, 32, 40, 51204, 44592,
            44277, 54617, 44, 32, 44592, 44228, 44277, 54617, 44, 32, 50640, 45320, 51648,
            44277, 54617, 32, 46321, 41>>,
        required_skills |-> <<<<51204, 44592, 47, 51204, 51088, 32, 51648, 49885>>, <<50640,
            45320, 51648, 32, 49884, 49828, 53596, 32, 51060, 54644>>, <<67, 65, 68, 32, 49444,
            44228>>, <<54872, 44221, 44277, 54617, 32, 44592, 52488>>>>,
        certifications |-> <<<<51204, 44592, 44592, 49324>>, <<50640, 45320, 51648, 44288,
            47532, 44592, 49324>>, <<49888, 51116, 49373, 50640, 45320, 51648, 48156, 51204,
            49444, 48708, 44592, 49324>>>>,
        salary_range |-> <<51, 44, 48, 48, 48, 47564, 50896, 32, 126, 32, 54, 44, 48, 48,
            48, 47564, 50896>>,
        outlook |-> <<47588, 50864, 32, 45458, 51020>>,
        growth_rate |-> <<50, 50, 37>>,
        employment_rate |-> <<57, 48, 37>>,
        related_majors |-> <<<<51204, 44592, 44277, 54617>>, <<50640, 45320, 51648, 44277,
            54617>>, <<44592, 44228, 44277, 54617>>, <<54872, 44221, 44277, 54617>>>>,
        high_school_subjects |-> <<<<47932, 47532, 54617>>, <<49688, 54617>>, <<54868,
            54617>>, <<51648, 44396, 44284, 54617>>>>,
        career_path |-> <<45824, 54617, 32, 51204, 44277, 32, 8594, 32, 50644, 51648, 45768,
            50612, 32, 8594, 32, 49440, 51076, 50644, 51648, 45768, 50612, 32, 8594, 32, 54532,
            47196, 51229, 53944, 32, 47588, 45768, 51200>>]

(* all_jobs: the per-field summary listings, as the (key, value) items of the
   dict in insertion order. *)
all_jobs == <<
    <<<<65, 73, 47, 48709, 45936, 51060, 53552>>, <<
        [code |-> "AI001", name |-> <<65, 73, 32, 50644, 51648, 45768, 50612>>, growth |->
            <<47588, 50864, 32, 45458, 51020>>, field |-> <<65, 73, 47, 48709, 45936, 51060,
            53552>>],
        [code |-> "AI002", name |-> <<45936, 51060, 53552, 32, 49324, 51060, 50616, 54000,
            49828, 53944>>, growth |-> <<47588, 50864, 32, 45458, 51020>>, field |-> <<65, 73,
            47, 48709, 45936, 51060, 53552>>],
        [code |-> "AI003", name |-> <<47672, 49888, 47084, 45789, 32, 50644, 51648, 45768,
            50612>>, growth |-> <<47588, 50864, 32, 45458, 51020>>, field |-> <<65, 73, 47,
            48709, 45936, 51060, 53552>>],
        [code |-> "AI004", name |-> <<65, 73, 32, 50980, 47532, 32, 51204, 47928, 44032>>,
            growth |-> <<45458, 51020>>, field |-> <<65, 73, 47, 48709, 45936, 51060, 53552>>],
        [code |-> "AI005", name |-> <<51088, 50672, 50612, 52376, 47532, 32, 51204, 47928,
            44032>>, growth |-> <<45458, 51020>>, field |-> <<65, 73, 47, 48709, 45936, 51060,
            53552>>],
        [code |-> "AI006", name |-> <<52980, 54504, 53552, 48708, 51204, 32, 50644, 51648,
            45768, 50612>>, growth |-> <<45458, 51020>>, field |-> <<65, 73, 47, 48709, 45936,
            51060, 53552>>],
        [code |-> "AI007", name |-> <<48709, 45936, 51060, 53552, 32, 50500, 53412, 53581,
            53944>>, growth |-> <<45458, 51020>>, field |-> <<65, 73, 47, 48709, 45936, 51060,
            53552>>],
        [code |-> "AI008", name |-> <<45936, 51060, 53552, 32, 50644, 51648, 45768, 50612>>,
            growth |-> <<45458, 51020>>, field |-> <<65, 73, 47, 48709, 45936, 51060, 53552>>]>> >>,
    <<<<48148, 51060, 50724, 54764, 49828>>, <<
        [code |-> "BIO001", name |-> <<48148, 51060, 50724, 51064, 54252, 47588, 54001,
            49828, 32, 50672, 44396, 50896>>, growth |-> <<45458, 51020>>, field |-> <<48148,
            51060, 50724, 54764, 49828>>],
        [code |-> "BIO002", name |-> <<50976, 51204, 52404, 32, 48516, 49437, 44032>>,
            growth |-> <<45458, 51020>>, field |-> <<48148, 51060, 50724, 54764, 49828>>],
        [code |-> "BIO003", name |-> <<49888, 50557, 32, 44060, 48156, 32, 50672, 44396,
            50896>>, growth |-> <<51473, 49345>>, field |-> <<48148, 51060, 50724, 54764,
            49828>>],
        [code |-> "BIO004", name |-> <<48148, 51060, 50724, 32, 45936, 51060, 53552, 32,
            48516, 49437, 44032>>, growth |-> <<45458, 51020>>, field |-> <<48148, 51060, 50724,
            54764, 49828>>],
        [code |-> "BIO005", name |-> <<51032, 47308, 32, 65, 73, 32, 51204, 47928, 44032>>,
            growth |-> <<47588, 50864, 32, 45458, 51020>>, field |-> <<48148, 51060, 50724,
            54764, 49828>>],
        [code |-> "BIO006", name |-> <<51116, 49373, 51032, 54617, 32, 50672, 44396,
            50896>>, growth |-> <<51473, 49345>>, field |-> <<48148, 51060, 50724, 54764,
            49828>>]>> >>,
    <<<<52828, 54872, 44221, 50640, 45320, 51648>>, <<
        [code |-> "ECO001", name |-> <<49888, 51116, 49373, 50640, 45320, 51648, 32, 50644,
            51648, 45768, 50612>>, growth |-> <<47588, 50864, 32, 45458, 51020>>, field |->
            <<52828, 54872, 44221, 50640, 45320, 51648>>],
        [code |-> "ECO002", name |-> <<53444, 49548, 48176, 52636, 44428, 32, 44144, 47000,
            32, 51204, 47928, 44032>>, growth |-> <<45458, 51020>>, field |-> <<52828, 54872,
            44221, 50640, 45320, 51648>>],
        [code |-> "ECO003", name |-> <<49688, 49548, 50640, 45320, 51648, 32, 50672, 44396,
            50896>>, growth |-> <<47588, 50864, 32, 45458, 51020>>, field |-> <<52828, 54872,
            44221, 50640, 45320, 51648>>],
        [code |-> "ECO004", name |-> <<69, 83, 71, 32, 52968, 49444, 53556, 53944>>, growth
            |-> <<45458, 51020>>, field |-> <<52828, 54872, 44221, 50640, 45320, 51648>>],
        [code |-> "ECO005", name |-> <<52828, 54872, 44221, 32, 44148, 52629, 32, 49444,
            44228, 49324>>, growth |-> <<51473, 49345>>, field |-> <<52828, 54872, 44221, 50640,
            45320, 51648>>]>> >>,
    <<<<47700, 53440, 48260, 49828, 47, 88, 82>>, <<
        [code |-> "META001", name |-> <<47700, 53440, 48260, 49828, 32, 54540, 47019, 54268,
            32, 44060, 48156, 51088>>, growth |-> <<47588, 50864, 32, 45458, 51020>>, field |->
            <<47700, 53440, 48260, 49828, 47, 88, 82>>],
        [code |-> "META002", name |-> <<88, 82, 32, 53080, 53584, 52768, 32, 46356, 51088,
            51060, 45320>>, growth |-> <<45458, 51020>>, field |-> <<47700, 53440, 48260, 49828,
            47, 88, 82>>],
        [code |-> "META003", name |-> <<51, 68, 32, 47784, 45944, 47084>>, growth |->
            <<45458, 51020>>, field |-> <<47700, 53440, 48260, 49828, 47, 88, 82>>],
        [code |-> "META004", name |-> <<44032, 49345, 49464, 44228, 32, 44148, 52629,
            44032>>, growth |-> <<51473, 49345>>, field |-> <<47700, 53440, 48260, 49828, 47,
            88, 82>>],
        [code |-> "META005", name |-> <<78, 70, 84, 32, 50500, 53944, 32, 46356, 47113,
            53552>>, growth |-> <<51473, 49345>>, field |-> <<47700, 53440, 48260, 49828, 47,
            88, 82>>]>> >>,
    <<<<51088, 50984, 51452, 54665, 47, 47784, 48716, 47532, 54000>>, <<
        [code |-> "AUTO001", name |-> <<51088, 50984, 51452, 54665, 32, 50644, 51648, 45768,
            50612>>, growth |-> <<47588, 50864, 32, 45458, 51020>>, field |-> <<51088, 50984,
            51452, 54665, 47, 47784, 48716, 47532, 54000>>],
        [code |-> "AUTO002", name |-> <<47784, 48716, 47532, 54000, 32, 45936, 51060, 53552,
            32, 48516, 49437, 44032>>, growth |-> <<45458, 51020>>, field |-> <<51088, 50984,
            51452, 54665, 47, 47784, 48716, 47532, 54000>>],
        [code |-> "AUTO003", name |-> <<51204, 44592, 52264, 32, 48176, 53552, 47532, 32,
            50672, 44396, 50896>>, growth |-> <<47588, 50864, 32, 45458, 51020>>, field |->
            <<51088, 50984, 51452, 54665, 47, 47784, 48716, 47532, 54000>>],
        [code |-> "AUTO004", name |-> <<52964, 45349, 54000, 46300, 52852, 32, 48372, 50504,
            32, 51204, 47928, 44032>>, growth |-> <<45458, 51020>>, field |-> <<51088, 50984,
            51452, 54665, 47, 47784, 48716, 47532, 54000>>]>> >>,
    <<<<47196, 48391, 44277, 54617>>, <<
        [code |-> "ROB001", name |-> <<47196, 48391, 32, 50644, 51648, 45768, 50612>>,
            growth |-> <<45458, 51020>>, field |-> <<47196, 48391, 44277, 54617>>],
        [code |-> "ROB002", name |-> <<54801, 46041, 47196, 48391, 32, 51204, 47928,
            44032>>, growth |-> <<51473, 49345>>, field |-> <<47196, 48391, 44277, 54617>>],
        [code |-> "ROB003", name |-> <<47196, 48391, 32, 48708, 51204, 32, 44060, 48156,
            51088>>, growth |-> <<45458, 51020>>, field |-> <<47196, 48391, 44277, 54617>>],
        [code |-> "ROB004", name |-> <<51032, 47308, 47196, 48391, 32, 50672, 44396,
            50896>>, growth |-> <<51473, 49345>>, field |-> <<47196, 48391, 44277, 54617>>]>> >>,
    <<<<50864, 51452, 54637, 44277>>, <<
        [code |-> "SPACE001", name |-> <<50948, 49457, 32, 49884, 49828, 53596, 32, 50644,
            51648, 45768, 50612>>, growth |-> <<51473, 49345>>, field |-> <<50864, 51452, 54637,
            44277>>],
        [code |-> "SPACE002", name |-> <<50864, 51452, 53456, 49324, 32, 50672, 44396,
            50896>>, growth |-> <<51473>>, field |-> <<50864, 51452, 54637, 44277>>],
        [code |-> "SPACE003", name |-> <<54637, 44277, 50864, 51452, 32, 45936, 51060,
            53552, 32, 48516, 49437, 44032>>, growth |-> <<51473, 49345>>, field |-> <<50864,
            51452, 54637, 44277>>]>> >>,
    <<<<49828, 47560, 53944, 49884, 54000>>, <<
        [code |-> "CITY001", name |-> <<49828, 47560, 53944, 49884, 54000, 32, 54540, 47000,
            45320>>, growth |-> <<51473, 49345>>, field |-> <<49828, 47560, 53944, 49884,
            54000>>],
        [code |-> "CITY002", name |-> <<73, 111, 84, 32, 49556, 47336, 49496, 32, 50500,
            53412, 53581, 53944>>, growth |-> <<45458, 51020>>, field |-> <<49828, 47560, 53944,
            49884, 54000>>],
        [code |-> "CITY003", name |-> <<46020, 49884, 45936, 51060, 53552, 32, 48516, 49437,
            44032>>, growth |-> <<51473, 49345>>, field |-> <<49828, 47560, 53944, 49884,
            54000>>],
        [code |-> "CITY004", name |-> <<49828, 47560, 53944, 48716, 46377, 32, 50644, 51648,
            45768, 50612>>, growth |-> <<51473>>, field |-> <<49828, 47560, 53944, 49884,
            54000>>]>> >>,
    <<<<44221, 50689, 47, 52968, 49444, 54021>>, <<
        [code |-> "BIZ001", name |-> <<44221, 50689, 32, 52968, 49444, 53556, 53944>>,
            growth |-> <<45458, 51020>>, field |-> <<44221, 50689, 47, 52968, 49444, 54021>>],
        [code |-> "BIZ002", name |-> <<51204, 47029, 32, 44592, 54925, 51088>>, growth |->
            <<51473, 49345>>, field |-> <<44221, 50689, 47, 52968, 49444, 54021>>],
        [code |-> "BIZ003", name |-> <<47560, 52992, 54021, 32, 47588, 45768, 51200>>,
            growth |-> <<51473, 49345>>, field |-> <<44221, 50689, 47, 52968, 49444, 54021>>],
        [code |-> "BIZ004", name |-> <<48652, 47004, 46300, 32, 47588, 45768, 51200>>,
            growth |-> <<51473>>, field |-> <<44221, 50689, 47, 52968, 49444, 54021>>],
        [code |-> "BIZ005", name |-> <<72, 82, 32, 51204, 47928, 44032>>, growth |->
            <<51473>>, field |-> <<44221, 50689, 47, 52968, 49444, 54021>>],
        [code |-> "BIZ006", name |-> <<51116, 47924, 32, 48516, 49437, 44032>>, growth |->
            <<51473, 49345>>, field |-> <<44221, 50689, 47, 52968, 49444, 54021>>],
        [code |-> "BIZ007", name |-> <<54924, 44228, 49324>>, growth |-> <<51473>>, field
            |-> <<44221, 50689, 47, 52968, 49444, 54021>>],
        [code |-> "BIZ008", name |-> <<49464, 47924, 49324>>, growth |-> <<51473>>, field
            |-> <<44221, 50689, 47, 52968, 49444, 54021>>]>> >>,
    <<<<49900, 47532, 47, 49345, 45812>>, <<
        [code |-> "PSY001", name |-> <<51076, 49345, 49900, 47532, 49324>>, growth |->
            <<45458, 51020>>, field |-> <<49900, 47532, 47, 49345, 45812>>],
        [code |-> "PSY002", name |-> <<49345, 45812, 49900, 47532, 49324>>, growth |->
            <<45458, 51020>>, field |-> <<49900, 47532, 47, 49345, 45812>>],
        [code |-> "PSY003", name |-> <<49328, 50629, 32, 48143, 32, 51312, 51649, 49900,
            47532, 49324>>, growth |-> <<51473, 49345>>, field |-> <<49900, 47532, 47, 49345,
            45812>>],
        [code |-> "PSY004", name |-> <<44368, 50977, 49900, 47532, 49324>>, growth |->
            <<51473>>, field |-> <<49900, 47532, 47, 49345, 45812>>],
        [code |-> "PSY005", name |-> <<51652, 47196, 49345, 45812, 49324>>, growth |->
            <<51473, 49345>>, field |-> <<49900, 47532, 47, 49345, 45812>>],
        [code |-> "PSY006", name |-> <<45440, 51060, 52824, 47308, 49324>>, growth |->
            <<51473>>, field |-> <<49900, 47532, 47, 49345, 45812>>]>> >>,
    <<<<50696, 49696, 47, 46356, 51088, 51064>>, <<
        [code |-> "ART001", name |-> <<85, 88, 47, 85, 73, 32, 46356, 51088, 51060, 45320>>,
            growth |-> <<47588, 50864, 32, 45458, 51020>>, field |-> <<50696, 49696, 47, 46356,
            51088, 51064>>],
        [code |-> "ART002", name |-> <<44536, 47000, 54589, 32, 46356, 51088, 51060,
            45320>>, growth |-> <<51473>>, field |-> <<50696, 49696, 47, 46356, 51088, 51064>>],
        [code |-> "ART003", name |-> <<50689, 49345, 32, 46356, 51088, 51060, 45320>>,
            growth |-> <<45458, 51020>>, field |-> <<50696, 49696, 47, 46356, 51088, 51064>>],
        [code |-> "ART004", name |-> <<50528, 45768, 47700, 51060, 53552>>, growth |->
            <<51473, 49345>>, field |-> <<50696, 49696, 47, 46356, 51088, 51064>>],
        [code |-> "ART005", name |-> <<44172, 51076, 32, 50500, 53944, 32, 46356, 47113,
            53552>>, growth |-> <<45458, 51020>>, field |-> <<50696, 49696, 47, 46356, 51088,
            51064>>],
        [code |-> "ART006", name |-> <<50937, 53808, 32, 51089, 44032>>, growth |-> <<45458,
            51020>>, field |-> <<50696, 49696, 47, 46356, 51088, 51064>>],
        [code |-> "ART007", name |-> <<51068, 47084, 49828, 53944, 47112, 51060, 53552>>,
            growth |-> <<51473>>, field |-> <<50696, 49696, 47, 46356, 51088, 51064>>]>> >>,
    <<<<52404, 50977, 47, 49828, 54252, 52768>>, <<
        [code |-> "SPT001", name |-> <<49828, 54252, 52768, 32, 47560, 52992, 53552>>,
            growth |-> <<51473, 49345>>, field |-> <<52404, 50977, 47, 49828, 54252, 52768>>],
        [code |-> "SPT002", name |-> <<49828, 54252, 52768, 32, 45936, 51060, 53552, 32,
            48516, 49437, 44032>>, growth |-> <<45458, 51020>>, field |-> <<52404, 50977, 47,
            49828, 54252, 52768>>],
        [code |-> "SPT003", name |-> <<50868, 46041, 52376, 48169, 49324>>, growth |->
            <<51473>>, field |-> <<52404, 50977, 47, 49828, 54252, 52768>>],
        [code |-> "SPT004", name |-> <<54140, 49828, 45328, 32, 53944, 47112, 51060,
            45320>>, growth |-> <<51473>>, field |-> <<52404, 50977, 47, 49828, 54252, 52768>>],
        [code |-> "SPT005", name |-> <<49828, 54252, 52768, 32, 50640, 51060, 51204,
            53944>>, growth |-> <<51473>>, field |-> <<52404, 50977, 47, 49828, 54252, 52768>>]>> >>,
    <<<<44368, 50977>>, <<
        [code |-> "EDU001", name |-> <<44368, 49324>>, growth |-> <<51473>>, field |->
            <<44368, 50977>>],
        [code |-> "EDU002", name |-> <<44368, 50977, 32, 52968, 53584, 52768, 32, 44060,
            48156, 51088>>, growth |-> <<45458, 51020>>, field |-> <<44368, 50977>>],
        [code |-> "EDU003", name |-> <<50640, 46272, 53580, 53356, 32, 51204, 47928,
            44032>>, growth |-> <<47588, 50864, 32, 45458, 51020>>, field |-> <<44368, 50977>>],
        [code |-> "EDU004", name |-> <<53945, 49688, 44368, 49324>>, growth |-> <<51473,
            49345>>, field |-> <<44368, 50977>>],
        [code |-> "EDU005", name |-> <<44368, 50977, 32, 54532, 47196, 44536, 47016, 32,
            44592, 54925, 51088>>, growth |-> <<51473>>, field |-> <<44368, 50977>>]>> >>,
    <<<<48277, 47456, 47, 54665, 51221>>, <<
        [code |-> "LAW001", name |-> <<48320, 54840, 49324>>, growth |-> <<51473>>, field
            |-> <<48277, 47456, 47, 54665, 51221>>],
        [code |-> "LAW002", name |-> <<48320, 47532, 49324>>, growth |-> <<51473, 49345>>,
            field |-> <<48277, 47456, 47, 54665, 51221>>],
        [code |-> "LAW003", name |-> <<48277, 47924, 49324>>, growth |-> <<51473>>, field
            |-> <<48277, 47456, 47, 54665, 51221>>],
        [code |-> "LAW004", name |-> <<44277, 51064, 51473, 44060, 49324>>, growth |->
            <<51473>>, field |-> <<48277, 47456, 47, 54665, 51221>>],
        [code |-> "LAW005", name |-> <<54665, 51221, 49324>>, growth |-> <<51473>>, field
            |-> <<48277, 47456, 47, 54665, 51221>>]>> >>,
    <<<<51032, 47308, 47, 48372, 44148>>, <<
        [code |-> "MED001", name |-> <<51032, 49324>>, growth |-> <<51473>>, field |->
            <<51032, 47308, 47, 48372, 44148>>],
        [code |-> "MED002", name |-> <<44036, 54840, 49324>>, growth |-> <<51473, 49345>>,
            field |-> <<51032, 47308, 47, 48372, 44148>>],
        [code |-> "MED003", name |-> <<50557, 49324>>, growth |-> <<51473>>, field |->
            <<51032, 47308, 47, 48372, 44148>>],
        [code |-> "MED004", name |-> <<47932, 47532, 52824, 47308, 49324>>, growth |->
            <<51473, 49345>>, field |-> <<51032, 47308, 47, 48372, 44148>>],
        [code |-> "MED005", name |-> <<51089, 50629, 52824, 47308, 49324>>, growth |->
            <<51473>>, field |-> <<51032, 47308, 47, 48372, 44148>>],
        [code |-> "MED006", name |-> <<51076, 49345, 48337, 47532, 49324>>, growth |->
            <<51473>>, field |-> <<51032, 47308, 47, 48372, 44148>>]>> >>,
    <<<<48120, 46356, 50612, 47, 53080, 53584, 52768>>, <<
        [code |-> "MDA001", name |-> <<50976, 53916, 48260, 47, 53356, 47532, 50640, 51060,
            53552>>, growth |-> <<45458, 51020>>, field |-> <<48120, 46356, 50612, 47, 53080,
            53584, 52768>>],
        [code |-> "MDA002", name |-> <<80, 68>>, growth |-> <<51473>>, field |-> <<48120,
            46356, 50612, 47, 53080, 53584, 52768>>],
        [code |-> "MDA003", name |-> <<48169, 49569, 51089, 44032>>, growth |-> <<51473>>,
            field |-> <<48120, 46356, 50612, 47, 53080, 53584, 52768>>],
        [code |-> "MDA004", name |-> <<52852, 54588, 46972, 51060, 53552>>, growth |->
            <<51473>>, field |-> <<48120, 46356, 50612, 47, 53080, 53584, 52768>>],
        [code |-> "MDA005", name |-> <<53080, 53584, 52768, 32, 44592, 54925, 51088>>,
            growth |-> <<45458, 51020>>, field |-> <<48120, 46356, 50612, 47, 53080, 53584,
            52768>>]>> >> >>

-----------------------------------------------------------------------------
(* Bounds of the model. *)

\* Longest keyword typed into a search box.
MaxKeywordLen == 2
\* Longest list of codes handed to compare_jobs.
MaxCodes == 3

\* Calls one caller makes with the same arguments.
MaxCalls == 2
\* Sessions whose threads are inside get_industry_jobs at the same time.
NumThreads == 3
\* Longest career_path string of a record handed to the path projection.
MaxPathLen == 4

-----------------------------------------------------------------------------
(* Values. *)

\* Python's None: no str has a negative code point.
None == <<-1>>

\* bool(x) of an Optional[str]: False for None and for "".
Falsy(x) == x = None \/ x = <<>>

\* bool(d) of a dict or list: False when it is empty.
Empty(d) == DOMAIN d = {}

\* d.get(k, default) on a dict modelled as a record.
Get(d, k, default) == IF k \in DOMAIN d THEN d[k] ELSE default

\* Sequences over S of length at most n.
SeqUpTo(S, n) == UNION {[1..k -> S] : k \in 0..n}

\* str.lower(), one code point at a time: ASCII capitals map to their small
\* letters; every other code point of the catalog and of the keyword
\* alphabet (Hangul, digits, punctuation, U+0131) is unchanged by lower().
LowerChar(c) == IF c \in 65..90 THEN c + 32 ELSE c

Lower(s) == [i \in 1..Len(s) |-> LowerChar(s[i])]

\* `sub in s` for two str: sub occurs in s as a contiguous run.
Contains(s, sub) ==
    \E i \in 0..(Len(s) - Len(sub)) : SubSeq(s, i + 1, i + Len(sub)) = sub

\* list.extend over a sequence of lists, in order.
RECURSIVE Concat(_)
Concat(ls) == IF ls = <<>> THEN <<>> ELSE Head(ls) \o Concat(Tail(ls))

\* The code points str.strip() removes: those for which str.isspace() holds.
Whitespace ==
    {9, 10, 11, 12, 13, 28, 29, 30, 31, 32, 133, 160, 5760}
    \cup 8192..8202 \cup {8232, 8233, 8239, 8287, 12288}

\* str.lstrip() and str.rstrip()
RECURSIVE LStrip(_)
LStrip(s) ==
    IF s # <<>> /\ Head(s) \in Whitespace THEN LStrip(Tail(s)) ELSE s

RECURSIVE RStrip(_)
RStrip(s) ==
    IF s # <<>> /\ s[Len(s)] \in Whitespace
    THEN RStrip(SubSeq(s, 1, Len(s) - 1))
    ELSE s

\* Mutant: only the leading whitespace is removed.
Strip_LeftOnly(s) == LStrip(s)

\* str.strip()
Strip(s) == RStrip(LStrip(s))

\* s.split(sep) for a separator of one code point: the runs between the
\* separators, the empty ones included; a str without the separator (the
\* empty str too) gives one run.
RECURSIVE Split(_, _)
Split(s, sep) ==
    IF \E i \in 1..Len(s) : s[i] = sep
    THEN LET i == CHOOSE k \in 1..Len(s) :
                     s[k] = sep /\ \A j \in 1..(k - 1) : s[j] # sep
         IN  <<SubSeq(s, 1, i - 1)>> \o Split(SubSeq(s, i + 1, Len(s)), sep)
    ELSE <<s>>

\* The separator of the stages of a career_path: U+2192, rightwards arrow.
Arrow == 8594

-----------------------------------------------------------------------------
(* WorkNetAPI: the static sample data. *)

\* Mutant: the lookup ignores the key and hands out the first record.
get_sample_job_data_FirstRecord(job_code) ==
    IF job_code \in DOMAIN sample_jobs THEN sample_jobs["AI001"] ELSE <<>>

\* Mutant: a missing key gets a default record in place of {}.
get_sample_job_data_DefaultRecord(job_code) ==
    IF job_code \in DOMAIN sample_jobs
    THEN sample_jobs[job_code]
    ELSE sample_jobs["AI001"]

\* Mutant: the record's outlook is out of step with the summary's: blank.
get_sample_job_data_StaleOutlook(job_code) ==
    IF job_code \in DOMAIN sample_jobs
    THEN [sample_jobs[job_code] EXCEPT !.outlook = <<>>]
    ELSE <<>>

\* sample_jobs.get(job_code, {})
get_sample_job_data(job_code) ==
    IF job_code \in DOMAIN sample_jobs THEN sample_jobs[job_code] ELSE <<>>

\* `field in all_jobs`
IsCatalogField(field) == \E i \in 1..Len(all_jobs) : all_jobs[i][1] = field

\* all_jobs[field]
FieldListing(field) ==
    all_jobs[CHOOSE i \in 1..Len(all_jobs) : all_jobs[i][1] = field][2]

\* Mutant: without a catalog field name there are no candidates.
Candidates_NoFallback(field) ==
    IF ~Falsy(field) /\ IsCatalogField(field)
    THEN FieldListing(field)
    ELSE <<>>

\* Mutant: the field argument is ignored.
Candidates_IgnoreField(field) ==
    Concat([i \in 1..Len(all_jobs) |-> all_jobs[i][2]])

\* Mutant: without a field, the listing of the first field is added again.
Candidates_ListedTwice(field) ==
    IF ~Falsy(field) /\ IsCatalogField(field)
    THEN FieldListing(field)
    ELSE Concat([i \in 1..Len(all_jobs) |-> all_jobs[i][2]]) \o all_jobs[1][2]

\* The candidate set: one field's listing, or every listing in dict order.
Candidates(field) ==
    IF ~Falsy(field) /\ IsCatalogField(field)
    THEN FieldListing(field)
    ELSE Concat([i \in 1..Len(all_jobs) |-> all_jobs[i][2]])

\* Mutant: the name is not lower-cased before the test.
KeywordFilter_NameAsIs(jobs, keyword) ==
    IF ~Falsy(keyword)
    THEN LET keyword_lower == Lower(keyword)
             Keep(job) == Contains(job.name, keyword_lower)
         IN  SelectSeq(jobs, Keep)
    ELSE jobs

\* Mutant: the keyword is not lower-cased before the test.
KeywordFilter_KeywordAsIs(jobs, keyword) ==
    IF ~Falsy(keyword)
    THEN LET Keep(job) == Contains(Lower(job.name), keyword)
         IN  SelectSeq(jobs, Keep)
    ELSE jobs

\* The keyword filter: `if keyword:` then keep the jobs whose lower-cased
\* name contains the lower-cased keyword.
KeywordFilter(jobs, keyword) ==
    IF ~Falsy(keyword)
    THEN LET keyword_lower == Lower(keyword)
             Keep(job) == Contains(Lower(job.name), keyword_lower)
         IN  SelectSeq(jobs, Keep)
    ELSE jobs

get_sample_jobs_by_keyword(keyword, field) ==
    KeywordFilter(Candidates(field), keyword)

-----------------------------------------------------------------------------
(* WorkNetAPI: the external call. *)

\* What the HTTP request of a call can come to: requests.get raises
\* ConnectionError or Timeout, raise_for_status raises HTTPError,
\* response.json() raises JSONDecodeError, or the body parses ("ok") to a
\* JSON value of some type.  NoCall stands for a call that makes no request.
NoCall == [status |-> "none", type |-> "none", body |-> <<>>]

Failure(exc) == [status |-> exc, type |-> "none", body |-> <<>>]

Failures ==
    {Failure("ConnectionError"), Failure("Timeout"), Failure("HTTPError"),
     Failure("JSONDecodeError")}

\* A JSON object shaped like an occupation record, for a code of its own.
RemoteRecord ==
    [job_code |-> "R001", job_name |-> <<82>>, field |-> <<82, 38, 68>>,
     required_education |-> <<>>, salary_range |-> <<>>, outlook |-> <<>>,
     growth_rate |-> <<49, 37>>, employment_rate |-> <<50, 37>>,
     related_majors |-> <<>>, high_school_subjects |-> <<>>,
     required_skills |-> <<>>, career_path |-> <<82>>]

RemoteSummary ==
    [code |-> "R001", name |-> <<82>>, growth |-> <<>>, field |-> <<82, 38, 68>>]

Payloads ==
    {[status |-> "ok", type |-> "dict", body |-> RemoteRecord],
     [status |-> "ok", type |-> "dict", body |-> [jobs |-> <<RemoteSummary>>]],
     [status |-> "ok", type |-> "dict", body |-> [error |-> <<52, 48, 52>>]],
     [status |-> "ok", type |-> "list", body |-> <<>>]}

Responses == Failures \cup Payloads

\* An exception that has left a method, as the caller sees it.
Raised(exc) == [exception |-> exc]

NoException == "none"

\* The try block of get_job_info: the request, raise_for_status, json().
TryJobInfo(resp) ==
    IF resp.status # "ok"
    THEN [exc |-> resp.status, val |-> <<>>]
    ELSE [exc |-> NoException, val |-> resp.body]

\* The try block of search_jobs: as above, then data.get('jobs', []), which
\* raises AttributeError when the parsed body is not a dict.
TrySearchJobs(resp) ==
    IF resp.status # "ok"
    THEN [exc |-> resp.status, val |-> <<>>]
    ELSE IF resp.type # "dict"
    THEN [exc |-> "AttributeError", val |-> <<>>]
    ELSE [exc |-> NoException, val |-> Get(resp.body, "jobs", <<>>)]

-----------------------------------------------------------------------------
(* State. *)

VARIABLES
    api_key,    \* WorkNetAPI.api_key
    _cache,     \* CareerDataManager._cache: field name -> listing
    request,    \* the call a caller makes: the method and its arguments
    last,       \* the latest call made: the method, the external outcome it
                \* met and the value it returned, and the number of calls
                \* made so far
    threads,    \* the get_industry_jobs calls in flight on the shared manager:
                \* per thread, the line it is at, its local `jobs` and the
                \* value it returned
    session     \* st.session_state of one session: the comparison list and
                \* the search history

vars == <<api_key, _cache, request, last, threads, session>>

\* Some configured credential.
SomeKey == <<107, 101, 121>>

\* The external outcomes a call can meet: none without a credential.
ExternalOutcomes == IF Falsy(api_key) THEN {NoCall} ELSE Responses

-----------------------------------------------------------------------------
(* WorkNetAPI: the public methods. *)

\* Mutant: only the exceptions of the request itself are caught; the error
\* of json() on a body that is not JSON leaves the method.
get_job_info_NarrowExcept(job_code, resp) ==
    IF Falsy(api_key)
    THEN get_sample_job_data(job_code)
    ELSE LET t == TryJobInfo(resp)
         IN  IF t.exc = NoException
             THEN t.val
             ELSE IF t.exc = "JSONDecodeError"
             THEN Raised(t.exc)
             ELSE get_sample_job_data(job_code)

\* An exception of the try block is caught by `except Exception`, and the
\* sample data is returned in its place.
get_job_info(job_code, resp) ==
    IF Falsy(api_key)
    THEN get_sample_job_data(job_code)
    ELSE LET t == TryJobInfo(resp)
         IN  IF t.exc = NoException
             THEN t.val
             ELSE get_sample_job_data(job_code)

search_jobs(keyword, field, resp) ==
    IF Falsy(api_key)
    THEN get_sample_jobs_by_keyword(keyword, field)
    ELSE LET t == TrySearchJobs(resp)
         IN  IF t.exc = NoException
             THEN t.val
             ELSE get_sample_jobs_by_keyword(keyword, field)

-----------------------------------------------------------------------------
(* CareerDataManager: the methods. *)

\* Mutant: a cache of one slot; storing a listing drops the other entries.
get_industry_jobs_Evict(industry) ==
    IF industry \in DOMAIN _cache
    THEN [ret |-> _cache[industry], cache |-> _cache]
    ELSE LET jobs == get_sample_jobs_by_keyword(<<>>, industry)
         IN  [ret |-> jobs, cache |-> [f \in {industry} |-> jobs]]

\* Mutant: a hit hands out the stored listing and takes its first summary
\* out of the store.
get_industry_jobs_ConsumeOnHit(industry) ==
    IF industry \in DOMAIN _cache
    THEN [ret |-> _cache[industry],
          cache |-> [_cache EXCEPT ![industry] =
                        IF Len(@) = 0 THEN @ ELSE Tail(@)]]
    ELSE LET jobs == get_sample_jobs_by_keyword(<<>>, industry)
         IN  [ret |-> jobs,
              cache |-> [f \in DOMAIN _cache \cup {industry} |->
                            IF f = industry THEN jobs ELSE _cache[f]]]

\* Mutant: the membership test looks at the cache as a whole; with any
\* entry stored, the call is answered from a stored listing.
get_industry_jobs_AnyHit(industry) ==
    IF DOMAIN _cache # {}
    THEN [ret |-> _cache[CHOOSE f \in DOMAIN _cache : TRUE], cache |-> _cache]
    ELSE LET jobs == get_sample_jobs_by_keyword(<<>>, industry)
         IN  [ret |-> jobs, cache |-> [f \in {industry} |-> jobs]]

\* The value returned and the cache left behind by get_industry_jobs.
get_industry_jobs(industry) ==
    IF industry \in DOMAIN _cache
    THEN [ret |-> _cache[industry], cache |-> _cache]
    ELSE LET jobs == get_sample_jobs_by_keyword(<<>>, industry)
         IN  [ret |-> jobs,
              cache |-> [f \in DOMAIN _cache \cup {industry} |->
                            IF f = industry THEN jobs ELSE _cache[f]]]

get_job_details(job_code, resp) == get_job_info(job_code, resp)

\* Mutant: a field the cache holds is answered from the cache.
search_jobs_by_keyword_Cached(keyword, field, resp) ==
    IF field \in DOMAIN _cache
    THEN _cache[field]
    ELSE search_jobs(keyword, field, resp)

search_jobs_by_keyword(keyword, field, resp) == search_jobs(keyword, field, resp)

\* Mutant: the rates are stored as bare numbers, without the "%" sign.
ComparisonRow_BareRates(job) ==
    LET Bare(s) == IF s # <<>> /\ s[Len(s)] = 37 THEN SubSeq(s, 1, Len(s) - 1) ELSE s
    IN  [name |-> Get(job, "job_name", <<>>),
         field |-> Get(job, "field", <<>>),
         required_education |-> Get(job, "required_education", <<>>),
         salary_range |-> Get(job, "salary_range", <<>>),
         outlook |-> Get(job, "outlook", <<>>),
         growth_rate |-> Bare(Get(job, "growth_rate", <<>>)),
         employment_rate |-> Bare(Get(job, "employment_rate", <<>>))]

\* One row of the comparison.  The DataFrame's column labels are Korean
\* (lines 610-616); the row's fields carry the names of the record fields
\* they are read from, job_name as name.
ComparisonRow(job) ==
    [name |-> Get(job, "job_name", <<>>),
     field |-> Get(job, "field", <<>>),
     required_education |-> Get(job, "required_education", <<>>),
     salary_range |-> Get(job, "salary_range", <<>>),
     outlook |-> Get(job, "outlook", <<>>),
     growth_rate |-> Get(job, "growth_rate", <<>>),
     employment_rate |-> Get(job, "employment_rate", <<>>)]

\* Mutant: each row is inserted at the front of comparison_data.
compare_jobs_Prepend(job_codes, resps) ==
    LET comparison_data[i \in 0..Len(job_codes)] ==
            IF i = 0
            THEN <<>>
            ELSE LET job == get_job_details(job_codes[i], resps[i])
                 IN  IF ~Empty(job)
                     THEN <<ComparisonRow(job)>> \o comparison_data[i - 1]
                     ELSE comparison_data[i - 1]
    IN  comparison_data[Len(job_codes)]

\* The loop of compare_jobs: comparison_data after the first i codes.  The
\* DataFrame built from it has one row per element, in order.
compare_jobs(job_codes, resps) ==
    LET comparison_data[i \in 0..Len(job_codes)] ==
            IF i = 0
            THEN <<>>
            ELSE LET job == get_job_details(job_codes[i], resps[i])
                 IN  IF ~Empty(job)
                     THEN Append(comparison_data[i - 1], ComparisonRow(job))
                     ELSE comparison_data[i - 1]
    IN  comparison_data[Len(job_codes)]

\* Mutant: a mapping of defaults is built for a code that does not resolve.
get_job_to_major_mapping_NoGuard(job_code, resp) ==
    LET job_info == get_job_details(job_code, resp)
    IN  [job_name |-> Get(job_info, "job_name", <<>>),
         related_majors |-> Get(job_info, "related_majors", <<>>),
         high_school_subjects |-> Get(job_info, "high_school_subjects", <<>>),
         career_path |-> Get(job_info, "career_path", <<>>),
         required_education |-> Get(job_info, "required_education", <<>>)]

get_job_to_major_mapping(job_code, resp) ==
    LET job_info == get_job_details(job_code, resp)
    IN  IF Empty(job_info)
        THEN <<>>
        ELSE [job_name |-> Get(job_info, "job_name", <<>>),
              related_majors |-> Get(job_info, "related_majors", <<>>),
              high_school_subjects |-> Get(job_info, "high_school_subjects", <<>>),
              career_path |-> Get(job_info, "career_path", <<>>),
              required_education |-> Get(job_info, "required_education", <<>>)]

\* The projection with the stages of the career path left out.
CareerPathOf_NoSteps(job) ==
    IF Empty(job)
    THEN <<>>
    ELSE [job_name |-> Get(job, "job_name", <<>>),
          steps |-> <<>>,
          high_school_subjects |-> Get(job, "high_school_subjects", <<>>),
          related_majors |-> Get(job, "related_majors", <<>>),
          required_skills |-> Get(job, "required_skills", <<>>)]

\* get_career_path_data from the record the lookup gave (lines 633-646).
CareerPathOf(job) ==
    IF Empty(job)
    THEN <<>>
    ELSE LET path_str == Get(job, "career_path", <<>>)
             parts == Split(path_str, Arrow)
             steps == [i \in 1..Len(parts) |-> Strip(parts[i])]
         IN  [job_name |-> Get(job, "job_name", <<>>),
              steps |-> steps,
              high_school_subjects |-> Get(job, "high_school_subjects", <<>>),
              related_majors |-> Get(job, "related_majors", <<>>),
              required_skills |-> Get(job, "required_skills", <<>>)]

get_career_path_data(job_code, resp) ==
    CareerPathOf(get_job_details(job_code, resp))

-----------------------------------------------------------------------------
(* CareerVisualizer: the charts of the comparison page.  A float is kept as
   a fraction [num, den]. *)

\* Text the charts look for.
\* the unit of the salaries, ten thousand won
MANWON == <<47564, 50896>>
OUTLOOK_VERY_HIGH == <<47588, 50864, 32, 45458, 51020>>
OUTLOOK_HIGH == <<45458, 51020>>
OUTLOOK_UPPER_MIDDLE == <<51473, 49345>>
OUTLOOK_MIDDLE == <<51473>>
OUTLOOK_LOW == <<45230, 51020>>
\* high-school graduate
HIGH_SCHOOL == <<44256, 51320>>
\* bachelor's degree
BACHELOR == <<54617, 49324>>
\* the default of job.get('salary_range', ...)
DEFAULT_SALARY_RANGE == <<51, 44, 48, 48, 48, 47564, 50896, 32, 126, 32, 53, 44, 48, 48, 48, 47564, 50896>>

\* s.rstrip(c) for one code point c
RECURSIVE RStripChar(_, _)
RStripChar(s, c) ==
    IF s # <<>> /\ s[Len(s)] = c
    THEN RStripChar(SubSeq(s, 1, Len(s) - 1), c)
    ELSE s

\* s.replace(sub, '') for a non-empty sub: every occurrence, left to right.
RECURSIVE RemoveAll(_, _)
RemoveAll(s, sub) ==
    IF Len(s) < Len(sub)
    THEN s
    ELSE IF SubSeq(s, 1, Len(sub)) = sub
    THEN RemoveAll(SubSeq(s, Len(sub) + 1, Len(s)), sub)
    ELSE <<s[1]>> \o RemoveAll(Tail(s), sub)

\* The number written by a str of decimal digits.
RECURSIVE DigitsValue(_)
DigitsValue(s) ==
    IF s = <<>>
    THEN 0
    ELSE DigitsValue(SubSeq(s, 1, Len(s) - 1)) * 10 + (s[Len(s)] - 48)

\* float(s) and int(s) on the strs the catalog gives them: surrounding
\* whitespace is dropped, decimal digits give their number, and a str with
\* any other code point (a Hangul word, a bracket, the empty str) raises
\* ValueError.  The signs, points and exponents float() also reads do not
\* occur in the catalog and are not modelled.
ParseNumber(s) ==
    LET t == Strip(s)
    IN  IF t # <<>> /\ \A i \in 1..Len(t) : t[i] \in 48..57
        THEN [exc |-> NoException, val |-> DigitsValue(t)]
        ELSE [exc |-> "ValueError", val |-> 0]

\* int(s.replace('man-won', '').replace(',', '').strip())
SalaryNumber(s) == ParseNumber(Strip(RemoveAll(RemoveAll(s, MANWON), <<44>>)))

RECURSIVE SumOf(_)
SumOf(ns) == IF ns = <<>> THEN 0 ELSE Head(ns) + SumOf(Tail(ns))

\* outlook_scores.get(outlook, 3)
OutlookScore(outlook) ==
    IF outlook = OUTLOOK_VERY_HIGH THEN 5
    ELSE IF outlook = OUTLOOK_HIGH THEN 4
    ELSE IF outlook = OUTLOOK_UPPER_MIDDLE THEN 3
    ELSE IF outlook = OUTLOOK_MIDDLE THEN 2
    ELSE IF outlook = OUTLOOK_LOW THEN 1
    ELSE 3

\* The try block for the salary of one row of the radar chart: the mean of
\* the numbers around "~" over 1500, or 3 when a part is no number.
SalaryScore(salary_str) ==
    LET parts == Split(salary_str, 126)
        salaries == [i \in 1..Len(parts) |-> SalaryNumber(parts[i])]
    IN  IF \E i \in 1..Len(parts) : salaries[i].exc # NoException
        THEN [num |-> 3, den |-> 1]
        ELSE [num |-> SumOf([i \in 1..Len(parts) |-> salaries[i].val]),
              den |-> Len(parts) * 1500]

EducationScore(required_education) ==
    IF Contains(required_education, HIGH_SCHOOL) THEN 5
    ELSE IF Contains(required_education, BACHELOR) THEN 4
    ELSE 3

\* The body of the loop of create_job_comparison_radar for one row: the
\* trace added, or the exception that leaves the method.
RadarTrace(row) ==
    LET growth == ParseNumber(RStripChar(row.growth_rate, 37))
        employment == ParseNumber(RStripChar(row.employment_rate, 37))
    IN  IF growth.exc # NoException
        THEN [exc |-> growth.exc, val |-> <<>>]
        ELSE IF employment.exc # NoException
        THEN [exc |-> employment.exc, val |-> <<>>]
        ELSE [exc |-> NoException,
              val |-> [name |-> row.name,
                       r |-> <<[num |-> OutlookScore(row.outlook), den |-> 1],
                               [num |-> growth.val, den |-> 5],
                               [num |-> employment.val, den |-> 20],
                               SalaryScore(row.salary_range),
                               [num |-> EducationScore(row.required_education),
                                den |-> 1]>>]]

\* The figure, one trace per row, unless a row raises.
create_job_comparison_radar(comparison_df) ==
    LET traces == [i \in 1..Len(comparison_df) |-> RadarTrace(comparison_df[i])]
    IN  IF \E i \in 1..Len(comparison_df) : traces[i].exc # NoException
        THEN [exc |-> traces[CHOOSE i \in 1..Len(comparison_df) :
                                /\ traces[i].exc # NoException
                                /\ \A j \in 1..(i - 1) : traces[j].exc = NoException].exc,
              val |-> <<>>]
        ELSE [exc |-> NoException,
              val |-> [i \in 1..Len(comparison_df) |-> traces[i].val]]

\* The try block of create_salary_distribution for one job: its bar, or the
\* exception that makes the loop go on to the next job.
SalaryBar(job) ==
    LET parts == Split(Get(job, "salary_range", DEFAULT_SALARY_RANGE), 126)
    IN  IF Len(parts) < 2
        THEN [exc |-> "IndexError", val |-> <<>>]
        ELSE LET min_sal == SalaryNumber(parts[1])
                 max_sal == SalaryNumber(parts[2])
             IN  IF min_sal.exc # NoException
                 THEN [exc |-> min_sal.exc, val |-> <<>>]
                 ELSE IF max_sal.exc # NoException
                 THEN [exc |-> max_sal.exc, val |-> <<>>]
                 ELSE [exc |-> NoException,
                       val |-> [job_name |-> Get(job, "job_name", <<>>),
                                min_sal |-> min_sal.val,
                                max_sal |-> max_sal.val,
                                avg |-> [num |-> min_sal.val + max_sal.val,
                                         den |-> 2]]]

\* The bars of the figure: the jobs whose salary range is read, in order.
create_salary_distribution(jobs_data) ==
    LET bars == [i \in 1..Len(jobs_data) |-> SalaryBar(jobs_data[i])]
        Read(bar) == bar.exc = NoException
        kept == SelectSeq(bars, Read)
    IN  [i \in 1..Len(kept) |-> kept[i].val]

\* The comparison as the page builds it for the session's list: the table,
\* then the radar chart, then the salary chart.  An exception that leaves a
\* chart method ends the script run: what was shown before stays, nothing
\* after it is produced.
ComparisonPage(job_codes, resps) ==
    IF Len(job_codes) < 2
    THEN [exc |-> NoException, outputs |-> <<>>, table |-> <<>>,
          radar |-> <<>>, salary |-> <<>>]
    ELSE LET comparison_df == compare_jobs(job_codes, resps)
             radar == create_job_comparison_radar(comparison_df)
             job_details == [i \in 1..Len(job_codes) |->
                                get_job_details(job_codes[i], resps[i])]
         IN  IF radar.exc # NoException
             THEN [exc |-> radar.exc, outputs |-> <<"table">>,
                   table |-> comparison_df, radar |-> <<>>, salary |-> <<>>]
             ELSE [exc |-> NoException,
                   outputs |-> <<"table", "radar", "salary">>,
                   table |-> comparison_df, radar |-> radar.val,
                   salary |-> create_salary_distribution(job_details)]

-----------------------------------------------------------------------------
(* The career path page (app.py, lines 827-922). *)

\* A Python slice s[:n].
Take(s, n) == SubSeq(s, 1, IF n < Len(s) THEN n ELSE Len(s))

\* The entries of the timeline's duration column (line 917) and of its
\* cumulative-period column (line 918), before they are cut to the steps.
TIMELINE_DURATIONS ==
    <<<<51, 45380>>,
      <<52, 45380>>,
      <<50, 45380, 40, 49440, 53469, 41>>,
      <<51, 45, 53, 45380>>,
      <<53, 45380, 43>>>>

TIMELINE_PERIODS ==
    <<<<44256, 49, 45, 44256, 51>>,
      <<49, 57, 45, 50, 50, 49464>>,
      <<50, 51, 45, 50, 52, 49464>>,
      <<50, 53, 45, 51, 48, 49464>>,
      <<51, 48, 49464, 43>>>>

\* pd.DataFrame(timeline_data), lines 915-921: the three columns are the
\* steps and two lists cut to at most as many entries; the constructor
\* raises ValueError when the columns differ in length.
TimelineTable(steps) ==
    LET duration == Take(TIMELINE_DURATIONS, Len(steps))
        cumulative == Take(TIMELINE_PERIODS, Len(steps))
    IN  IF Len(duration) = Len(steps) /\ Len(cumulative) = Len(steps)
        THEN [exc |-> NoException,
              columns |-> [steps |-> steps, duration |-> duration,
                           cumulative |-> cumulative]]
        ELSE [exc |-> "ValueError", columns |-> <<>>]

\* job_options (line 833): the code under each name, the later summary of a
\* name replacing an earlier one.
JobOptions(jobs) ==
    [name \in {jobs[i].name : i \in 1..Len(jobs)} |->
        LET i == CHOOSE k \in 1..Len(jobs) :
                     /\ jobs[k].name = name
                     /\ \A j \in (k + 1)..Len(jobs) : jobs[j].name # name
        IN  jobs[i].code]

\* What a run of the page shows nothing of: no search text, no result, or a
\* selected occupation without path data or record.
NoPathShown(code) ==
    [exc |-> NoException, outputs |-> <<>>, code |-> code, steps |-> <<>>,
     timeline |-> <<>>]

\* The part of the page below the select box, for the selected code: the
\* network chart, the steps, the skills and certifications, then the
\* timeline table.  An exception ends the script run: what was shown before
\* stays.
CareerPathView(code) ==
    LET path_data == get_career_path_data(code, NoCall)
        job_detail == get_job_details(code, NoCall)
    IN  IF Empty(path_data) \/ Empty(job_detail)
        THEN NoPathShown(code)
        ELSE LET steps == Get(path_data, "steps", <<>>)
                 table == TimelineTable(steps)
             IN  IF table.exc # NoException
                 THEN [exc |-> table.exc,
                       outputs |-> <<"network", "steps", "skills">>,
                       code |-> code, steps |-> steps, timeline |-> <<>>]
                 ELSE [exc |-> NoException,
                       outputs |-> <<"network", "steps", "skills", "timeline">>,
                       code |-> code, steps |-> steps,
                       timeline |-> table.columns]

-----------------------------------------------------------------------------
(* The session's comparison list (st.session_state.selected_jobs_for_comparison)
   as the buttons of the pages change it. *)

\* Mutant: the code is appended without looking for it in the list.
AddToComparison_NoMembershipTest(selected, code) == Append(selected, code)

\* The add buttons of the home search tab and of the job search page:
\* append unless the code is in the list.
AddToComparison(selected, code) ==
    IF \E i \in 1..Len(selected) : selected[i] = code
    THEN selected
    ELSE Append(selected, code)

\* The add button of the comparison page: as above, and only while the list
\* has fewer than 5 codes.
AddToComparisonLimited(selected, code) ==
    IF \E i \in 1..Len(selected) : selected[i] = code
    THEN selected
    ELSE IF Len(selected) < 5
    THEN Append(selected, code)
    ELSE selected

\* list.remove(code): the first occurrence is taken out.
RemoveFromComparison(selected, code) ==
    LET i == CHOOSE k \in 1..Len(selected) :
                 selected[k] = code /\ \A j \in 1..(k - 1) : selected[j] # code
    IN  SubSeq(selected, 1, i - 1) \o SubSeq(selected, i + 1, Len(selected))

-----------------------------------------------------------------------------
(* The session's search history (st.session_state.search_history) on the job
   search page. *)

\* The number of queries the history keeps (app.py, line 475).
HistoryLimit == 10

\* Mutant: the query is put in front without looking for it in the history.
SearchHistoryUpdate_NoMembershipTest(history, search_query) ==
    IF search_query = <<>>
    THEN history
    ELSE Take(<<search_query>> \o history, HistoryLimit)

\* Lines 471-475: a non-empty query that is not in the history is inserted
\* at the front, and the history is cut to its first ten entries.
SearchHistoryUpdate(history, search_query) ==
    IF search_query = <<>>
    THEN history
    ELSE IF \E i \in 1..Len(history) : history[i] = search_query
    THEN history
    ELSE Take(<<search_query>> \o history, HistoryLimit)

-----------------------------------------------------------------------------
(* Inputs. *)

\* Two catalog field names (lines 356 and 366) and a name the catalog does
\* not have ("IT").
FIELD_AI == all_jobs[1][1]
FIELD_BIO == all_jobs[2][1]
UnknownField == <<73, 84>>

IndustryInputs == {FIELD_AI, FIELD_BIO, UnknownField}

FieldInputs == {None, <<>>} \cup IndustryInputs

\* Keywords over "A", "a", "I", "i", " " and U+0131 (dotless i).
KeywordAlphabet == {65, 97, 73, 105, 32, 305}

KeywordInputs == SeqUpTo(KeywordAlphabet, MaxKeywordLen)

\* Every key of sample_jobs; a code listed in all_jobs that has no record;
\* codes found nowhere in the catalog.
UnknownCodes == {"AI002", "ai001", "ZZZ999", ""}

CodeInputs == DOMAIN sample_jobs \cup UnknownCodes

CompareCodeInputs == {"AI001", "BIO001", "MDA001", "AI002", "ZZZ999"}

\* A call: the method and its arguments (those it does not take stay at
\* their defaults).
Request(op) ==
    [op |-> op, job_code |-> "", job_codes |-> <<>>, keyword |-> <<>>,
     field |-> None, job |-> <<>>]

ManagerRequests ==
    {[Request("get_industry_jobs") EXCEPT !.field = f] : f \in IndustryInputs}
    \cup {[Request("get_job_details") EXCEPT !.job_code = c] : c \in CodeInputs}
    \cup {[Request("search_jobs_by_keyword") EXCEPT !.keyword = k, !.field = f] :
            k \in KeywordInputs, f \in FieldInputs}
    \cup {[Request("compare_jobs") EXCEPT !.job_codes = cs] :
            cs \in SeqUpTo(CompareCodeInputs, MaxCodes)}
    \cup {[Request("get_job_to_major_mapping") EXCEPT !.job_code = c] :
            c \in CodeInputs}
    \cup {[Request("get_career_path_data") EXCEPT !.job_code = c] :
            c \in CodeInputs}

\* Records for the path projection on its own: career_path is any str over
\* "A", " " and the arrow, or the key is missing.
PathAlphabet == {65, 32, Arrow}

PathInputs == SeqUpTo(PathAlphabet, MaxPathLen)

RecordInputs ==
    {[job_name |-> <<74>>, career_path |-> p] : p \in PathInputs}
    \cup {[job_name |-> <<74>>]}

\* The session's comparison list: codes picked from search results, each at
\* most once (app.py, lines 755-757).
PageCodeInputs == {"AI001", "BIO001", "MDA001", "AI002"}

PageRequests ==
    {[Request("comparison_page") EXCEPT !.job_codes = cs] :
        cs \in {l \in SeqUpTo(PageCodeInputs, MaxCodes) :
                  \A i, j \in 1..Len(l) : l[i] = l[j] => i = j}}

\* The texts typed into the search box of the job search page: the k-th
\* different query of a session is the letter "a" k times, and no text at
\* all is Query(0).  One query more than the history keeps.
Query(k) == [i \in 1..k |-> 97]

NumQueries == HistoryLimit + 1

HistoryRequests == {Request("search_page")}

\* The career path page: request.keyword is the text of its search box.
PathPageRequests ==
    {[Request("career_path_page") EXCEPT !.keyword = k] : k \in KeywordInputs}

PathRequests == {[Request("CareerPathOf") EXCEPT !.job = j] : j \in RecordInputs}

ApiRequests ==
    {[Request("get_job_info") EXCEPT !.job_code = c] : c \in CodeInputs}
    \cup {[Request("search_jobs") EXCEPT !.keyword = k, !.field = f] :
            k \in KeywordInputs, f \in FieldInputs}

\* A session: request.job_codes are the codes the user's searches turn up,
\* the ones the add buttons are shown for.
SessionRequest(codes) == [Request("session") EXCEPT !.job_codes = codes]

\* Five codes with a record and one without: one more than the comparison
\* page lets in.
SessionCodes == <<"AI001", "BIO001", "MDA001", "BIZ001", "PSY001", "AI002">>

\* A short session next to the callers of the manager's methods.
CatalogRequests ==
    {SessionRequest(<<"AI001", "MDA001", "AI002">>)}
    \cup {r \in ManagerRequests : Len(r.keyword) <= 1 /\ Len(r.job_codes) <= 1}

\* A user action and its argument, as the latest call.
Event(op, arg) == [op |-> op, resp |-> NoCall, ret |-> <<>>, n |-> 0, arg |-> arg]

\* The session state of a new session (app.py, lines 61-64).
NoSession == [selected_jobs_for_comparison |-> <<>>, search_history |-> <<>>]

\* No call made yet.
NoResult == [op |-> "none", resp |-> NoCall, ret |-> <<>>, n |-> 0]

-----------------------------------------------------------------------------
(* Actions: one per method; each serves the request and records what it
   returned.  A caller repeats its call up to MaxCalls times. *)

GetIndustryJobs ==
    /\ request.op = "get_industry_jobs"
    /\ last.n < MaxCalls
    /\ LET r == get_industry_jobs(request.field)
       IN  /\ _cache' = r.cache
           /\ last' = [op |-> request.op, resp |-> NoCall, ret |-> r.ret,
                    n |-> last.n + 1]
    /\ UNCHANGED <<api_key, request, threads, session>>

GetJobDetails ==
    /\ request.op = "get_job_details"
    /\ last.n < MaxCalls
    /\ \E resp \in ExternalOutcomes :
          last' = [op |-> request.op, resp |-> resp,
                   ret |-> get_job_details(request.job_code, resp),
                   n |-> last.n + 1]
    /\ UNCHANGED <<api_key, _cache, request, threads, session>>

SearchJobsByKeyword ==
    /\ request.op = "search_jobs_by_keyword"
    /\ last.n < MaxCalls
    /\ \E resp \in ExternalOutcomes :
          last' = [op |-> request.op, resp |-> resp,
                   ret |-> search_jobs_by_keyword(request.keyword, request.field, resp),
                   n |-> last.n + 1]
    /\ UNCHANGED <<api_key, _cache, request, threads, session>>

CompareJobs ==
    /\ request.op = "compare_jobs"
    /\ last.n < MaxCalls
    /\ \E resps \in [1..Len(request.job_codes) -> ExternalOutcomes] :
          last' = [op |-> request.op, resp |-> NoCall,
                   ret |-> compare_jobs(request.job_codes, resps),
                   n |-> last.n + 1]
    /\ UNCHANGED <<api_key, _cache, request, threads, session>>

GetJobToMajorMapping ==
    /\ request.op = "get_job_to_major_mapping"
    /\ last.n < MaxCalls
    /\ \E resp \in ExternalOutcomes :
          last' = [op |-> request.op, resp |-> resp,
                   ret |-> get_job_to_major_mapping(request.job_code, resp),
                   n |-> last.n + 1]
    /\ UNCHANGED <<api_key, _cache, request, threads, session>>

GetCareerPathData ==
    /\ request.op = "get_career_path_data"
    /\ last.n < MaxCalls
    /\ \E resp \in ExternalOutcomes :
          last' = [op |-> request.op, resp |-> resp,
                   ret |-> get_career_path_data(request.job_code, resp),
                   n |-> last.n + 1]
    /\ UNCHANGED <<api_key, _cache, request, threads, session>>

\* The path projection applied to the record of the request.
ProjectCareerPath ==
    /\ request.op = "CareerPathOf"
    /\ last.n < MaxCalls
    /\ last' = [op |-> request.op, resp |-> NoCall,
                ret |-> CareerPathOf(request.job), n |-> last.n + 1]
    /\ UNCHANGED <<api_key, _cache, request, threads, session>>

\* A run of the comparison page with the session's list.
ShowComparisonPage ==
    /\ request.op = "comparison_page"
    /\ last.n < MaxCalls
    /\ \E resps \in [1..Len(request.job_codes) -> ExternalOutcomes] :
          last' = [op |-> request.op, resp |-> NoCall,
                   ret |-> ComparisonPage(request.job_codes, resps),
                   n |-> last.n + 1]
    /\ UNCHANGED <<api_key, _cache, request, threads, session>>

\* A run of the career path page: the search, then the select box with any
\* one of the names found, then the view of the code under that name.
ShowCareerPathPage ==
    /\ request.op = "career_path_page"
    /\ last.n < MaxCalls
    /\ LET jobs == IF request.keyword = <<>>
                   THEN <<>>
                   ELSE search_jobs_by_keyword(request.keyword, None, NoCall)
           job_options == JobOptions(jobs)
       IN  IF jobs = <<>>
           THEN last' = [op |-> request.op, resp |-> NoCall,
                         ret |-> NoPathShown(""), n |-> last.n + 1]
           ELSE \E selected_job_name \in DOMAIN job_options :
                   last' = [op |-> request.op, resp |-> NoCall,
                            ret |-> CareerPathView(job_options[selected_job_name]),
                            n |-> last.n + 1]
    /\ UNCHANGED <<api_key, _cache, request, threads, session>>

\* How many different queries the session has submitted so far.
QueriesSoFar == IF "queries" \in DOMAIN last THEN last.queries ELSE 0

\* A run of the job search page with a text in the search box and a choice
\* of the field filter (lines 467-479): the history update, then the search.
\* A query the session has not typed before is the next one in the numbering.
SubmitSearch ==
    /\ request.op = "search_page"
    /\ \E k \in 0..NumQueries, field \in {None, FIELD_AI} :
          LET search_query == Query(k)
          IN  /\ k <= QueriesSoFar + 1
              /\ session' = [session EXCEPT !.search_history =
                                SearchHistoryUpdate(@, search_query)]
              /\ last' = [op |-> "search", resp |-> NoCall,
                          ret |-> IF search_query = <<>>
                                  THEN <<>>
                                  ELSE search_jobs_by_keyword(search_query, field, NoCall),
                          n |-> 0, arg |-> search_query,
                          queries |-> IF k > QueriesSoFar THEN k ELSE QueriesSoFar]
    /\ UNCHANGED <<api_key, _cache, request, threads>>

GetJobInfo ==
    /\ request.op = "get_job_info"
    /\ last.n < MaxCalls
    /\ \E resp \in ExternalOutcomes :
          last' = [op |-> request.op, resp |-> resp,
                   ret |-> get_job_info(request.job_code, resp),
                   n |-> last.n + 1]
    /\ UNCHANGED <<api_key, _cache, request, threads, session>>

SearchJobs ==
    /\ request.op = "search_jobs"
    /\ last.n < MaxCalls
    /\ \E resp \in ExternalOutcomes :
          last' = [op |-> request.op, resp |-> resp,
                   ret |-> search_jobs(request.keyword, request.field, resp),
                   n |-> last.n + 1]
    /\ UNCHANGED <<api_key, _cache, request, threads, session>>

-----------------------------------------------------------------------------
(* The manager, as the application builds it: CareerDataManager() makes its
   own WorkNetAPI() with no credential and starts with an empty cache. *)

Init ==
    /\ api_key = None
    /\ _cache = <<>>
    /\ request \in ManagerRequests
    /\ last = NoResult
    /\ threads = <<>>
    /\ session = NoSession

Next ==
    \/ GetIndustryJobs
    \/ GetJobDetails
    \/ SearchJobsByKeyword
    \/ CompareJobs
    \/ GetJobToMajorMapping
    \/ GetCareerPathData

Spec == Init /\ [][Next]_vars

(* A WorkNetAPI client on its own, built with or without a credential. *)

InitApi ==
    /\ api_key \in {None, <<>>, SomeKey}
    /\ _cache = <<>>
    /\ request \in ApiRequests
    /\ last = NoResult
    /\ threads = <<>>
    /\ session = NoSession

NextApi ==
    \/ GetJobInfo
    \/ SearchJobs

SpecApi == InitApi /\ [][NextApi]_vars

(* The manager shared by all sessions (app.py, get_managers under
   st.cache_resource): while one session repeats its call, the other
   sessions call get_industry_jobs and fill the same cache. *)

OtherGetIndustryJobs ==
    /\ \E industry \in IndustryInputs :
          _cache' = get_industry_jobs(industry).cache
    /\ UNCHANGED <<api_key, request, last, threads, session>>

SharedRequests ==
    {r \in ManagerRequests :
        r.op \in {"get_industry_jobs", "search_jobs_by_keyword", "compare_jobs"}}

InitShared ==
    /\ api_key = None
    /\ _cache = <<>>
    /\ request \in SharedRequests
    /\ last = NoResult
    /\ threads = <<>>
    /\ session = NoSession

NextShared ==
    \/ GetIndustryJobs
    \/ SearchJobsByKeyword
    \/ CompareJobs
    \/ OtherGetIndustryJobs

SpecShared == InitShared /\ [][NextShared]_vars

(* get_industry_jobs line by line, run by the threads of several sessions
   at once on the shared manager, all for the field of `request`.  A thread
   is at the line it executes next; the lines of different threads
   interleave freely (no lock is taken). *)

\* Mutant: storing on top of an entry adds the listing to the one stored.
StoreEntry_Accumulate(cache, industry, jobs) ==
    [f \in DOMAIN cache \cup {industry} |->
        IF f # industry
        THEN cache[f]
        ELSE IF industry \in DOMAIN cache THEN cache[f] \o jobs ELSE jobs]

\* self._cache[industry] = jobs
StoreEntry(cache, industry, jobs) ==
    [f \in DOMAIN cache \cup {industry} |->
        IF f = industry THEN jobs ELSE cache[f]]

\* A thread entering get_industry_jobs.
Entering == [pc |-> "L536", jobs |-> <<>>, ret |-> <<>>]

\* Line 536: if industry in self._cache
CheckCache(t) ==
    /\ threads[t].pc = "L536"
    /\ threads' = [threads EXCEPT ![t].pc =
                      IF request.field \in DOMAIN _cache THEN "L537" ELSE "L539"]
    /\ UNCHANGED <<api_key, _cache, request, last, session>>

\* Line 537: return self._cache[industry]
ReturnCached(t) ==
    /\ threads[t].pc = "L537"
    /\ threads' = [threads EXCEPT ![t].pc = "done",
                                  ![t].ret = _cache[request.field]]
    /\ UNCHANGED <<api_key, _cache, request, last, session>>

\* Line 539: jobs = self.worknet._get_sample_jobs_by_keyword("", industry)
ComputeListing(t) ==
    /\ threads[t].pc = "L539"
    /\ threads' = [threads EXCEPT ![t].pc = "L540",
                                  ![t].jobs = get_sample_jobs_by_keyword(<<>>, request.field)]
    /\ UNCHANGED <<api_key, _cache, request, last, session>>

\* Line 540: self._cache[industry] = jobs
StoreListing(t) ==
    /\ threads[t].pc = "L540"
    /\ _cache' = StoreEntry(_cache, request.field, threads[t].jobs)
    /\ threads' = [threads EXCEPT ![t].pc = "L541"]
    /\ UNCHANGED <<api_key, request, last, session>>

\* Line 541: return jobs
ReturnListing(t) ==
    /\ threads[t].pc = "L541"
    /\ threads' = [threads EXCEPT ![t].pc = "done", ![t].ret = threads[t].jobs]
    /\ UNCHANGED <<api_key, _cache, request, last, session>>

InitRace ==
    /\ api_key = None
    /\ _cache = <<>>
    /\ request \in {r \in ManagerRequests : r.op = "get_industry_jobs"}
    /\ last = NoResult
    /\ threads = [t \in 1..NumThreads |-> Entering]
    /\ session = NoSession

NextRace ==
    \E t \in 1..NumThreads :
        \/ CheckCache(t)
        \/ ReturnCached(t)
        \/ ComputeListing(t)
        \/ StoreListing(t)
        \/ ReturnListing(t)

SpecRace == InitRace /\ [][NextRace]_vars

(* The comparison page of a session. *)

InitPage ==
    /\ api_key = None
    /\ _cache = <<>>
    /\ request \in PageRequests
    /\ last = NoResult
    /\ threads = <<>>
    /\ session = NoSession

NextPage == ShowComparisonPage

SpecPage == InitPage /\ [][NextPage]_vars

(* The career path page, run for a search text. *)

InitPathPage ==
    /\ api_key = None
    /\ _cache = <<>>
    /\ request \in PathPageRequests
    /\ last = NoResult
    /\ threads = <<>>
    /\ session = NoSession

NextPathPage == ShowCareerPathPage

SpecPathPage == InitPathPage /\ [][NextPathPage]_vars

(* The job search page of one session, search after search. *)

InitHistory ==
    /\ api_key = None
    /\ _cache = <<>>
    /\ request \in HistoryRequests
    /\ last = NoResult
    /\ threads = <<>>
    /\ session = NoSession

NextHistory == SubmitSearch

SpecHistory == InitHistory /\ [][NextHistory]_vars

(* One session of the app: the buttons that change the comparison list, and
   the industry page, which reads a listing through the cache. *)

\* The add button of a search result on the home search tab.
AddOnHomeTab ==
    /\ request.op = "session"
    /\ \E k \in 1..Len(request.job_codes) :
          LET code == request.job_codes[k]
          IN  /\ session' = [session EXCEPT !.selected_jobs_for_comparison =
                                AddToComparison(@, code)]
              /\ last' = Event("add_home", code)
    /\ UNCHANGED <<api_key, _cache, request, threads>>

\* The add button of a search result on the job search page: shown only
\* when the lookup of the code gives a record.
AddOnJobSearchPage ==
    /\ request.op = "session"
    /\ \E k \in 1..Len(request.job_codes) :
          LET code == request.job_codes[k]
          IN  /\ ~Empty(get_job_details(code, NoCall))
              /\ session' = [session EXCEPT !.selected_jobs_for_comparison =
                                AddToComparison(@, code)]
              /\ last' = Event("add_job_search", code)
    /\ UNCHANGED <<api_key, _cache, request, threads>>

\* The add button of a search result on the comparison page.
AddOnComparisonPage ==
    /\ request.op = "session"
    /\ \E k \in 1..Len(request.job_codes) :
          LET code == request.job_codes[k]
          IN  /\ session' = [session EXCEPT !.selected_jobs_for_comparison =
                                AddToComparisonLimited(@, code)]
              /\ last' = Event("add_comparison", code)
    /\ UNCHANGED <<api_key, _cache, request, threads>>

\* The remove button the comparison page shows for each code of the list.
RemoveOnComparisonPage ==
    /\ \E i \in 1..Len(session.selected_jobs_for_comparison) :
          LET code == session.selected_jobs_for_comparison[i]
          IN  /\ session' = [session EXCEPT !.selected_jobs_for_comparison =
                                RemoveFromComparison(@, code)]
              /\ last' = Event("remove", code)
    /\ UNCHANGED <<api_key, _cache, request, threads>>

\* The reset button: below the comparison, so shown only when the list has
\* two or more codes and the run of the page has come past the charts.
ResetComparison ==
    /\ Len(session.selected_jobs_for_comparison) >= 2
    /\ ComparisonPage(session.selected_jobs_for_comparison,
                      [i \in 1..Len(session.selected_jobs_for_comparison) |-> NoCall]).exc
          = NoException
    /\ session' = [session EXCEPT !.selected_jobs_for_comparison = <<>>]
    /\ last' = Event("reset", "")
    /\ UNCHANGED <<api_key, _cache, request, threads>>

InitSession ==
    /\ api_key = None
    /\ _cache = <<>>
    /\ request = SessionRequest(SessionCodes)
    /\ last = NoResult
    /\ threads = <<>>
    /\ session = NoSession

NextSession ==
    \/ AddOnHomeTab
    \/ AddOnJobSearchPage
    \/ AddOnComparisonPage
    \/ RemoveOnComparisonPage
    \/ ResetComparison

SpecSession == InitSession /\ [][NextSession]_vars

(* Every operation side by side on the shared manager: a session with its
   comparison list, or a caller of one of the manager's methods, while the
   industry pages of the sessions fill the cache. *)

InitCatalog ==
    /\ api_key = None
    /\ _cache = <<>>
    /\ request \in CatalogRequests
    /\ last = NoResult
    /\ threads = <<>>
    /\ session = NoSession

NextCatalog ==
    \/ GetIndustryJobs
    \/ GetJobDetails
    \/ SearchJobsByKeyword
    \/ CompareJobs
    \/ GetJobToMajorMapping
    \/ GetCareerPathData
    \/ OtherGetIndustryJobs
    \/ AddOnHomeTab
    \/ AddOnJobSearchPage
    \/ AddOnComparisonPage
    \/ RemoveOnComparisonPage
    \/ ResetComparison

SpecCatalog == InitCatalog /\ [][NextCatalog]_vars

(* The path projection as a function of the record: any career_path. *)

InitPath ==
    /\ api_key = None
    /\ _cache = <<>>
    /\ request \in PathRequests
    /\ last = NoResult
    /\ threads = <<>>
    /\ session = NoSession

NextPath == ProjectCareerPath

SpecPath == InitPath /\ [][NextPath]_vars

-----------------------------------------------------------------------------
(* Vocabulary of the properties. *)

\* The code resolves: the catalog holds a record under it.
Resolves(code) == code \in DOMAIN sample_jobs

\* The elements of a sequence.
Range(seq) == {seq[i] : i \in 1..Len(seq)}

\* A keyword of whitespace only (the empty keyword included).
IsBlank(keyword) == \A i \in 1..Len(keyword) : keyword[i] = 32

\* Two code points that are the same letter up to case.
SameLetter(a, b) ==
    \/ a = b
    \/ a \in 65..90 /\ b = a + 32
    \/ b \in 65..90 /\ a = b + 32

\* name contains keyword as a substring, compared case-insensitively.
MatchesIgnoringCase(name, keyword) ==
    \E i \in 0..(Len(name) - Len(keyword)) :
        \A j \in 1..Len(keyword) : SameLetter(name[i + j], keyword[j])

\* str.upper(), one code point at a time, on the code points of the keyword
\* alphabet: ASCII small letters map to their capitals and U+0131 (dotless
\* i) maps to "I".
UpperChar(c) == IF c \in 97..122 THEN c - 32 ELSE IF c = 305 THEN 73 ELSE c

Upper(s) == [i \in 1..Len(s) |-> UpperChar(s[i])]

\* The number of summaries listed under the first n fields.
RECURSIVE ListedBefore(_)
ListedBefore(n) == IF n = 0 THEN 0 ELSE ListedBefore(n - 1) + Len(all_jobs[n][2])

-----------------------------------------------------------------------------
(* Properties of the manager's lookups and comparison. *)

\* C1: for every key of sample_jobs, get_job_details(code) returns a
\* non-empty record whose job_code is the requested code.
C1_KnownCodeReturnsItsRecord ==
    (last.op = "get_job_details" /\ Resolves(request.job_code))
        => (~Empty(last.ret) /\ last.ret.job_code = request.job_code)

C1_Witness ==
    /\ last.op = "get_job_details"
    /\ request.job_code = "MDA001"
    /\ ~Empty(last.ret)

\* C2: for every code that is not a key of sample_jobs, get_job_details
\* returns the empty record and compare_jobs([code]) has zero rows.
C2_UnknownCodeIsAbsent ==
    /\ (last.op = "get_job_details" /\ ~Resolves(request.job_code))
          => last.ret = <<>>
    /\ (last.op = "compare_jobs" /\ Len(request.job_codes) = 1
          /\ ~Resolves(request.job_codes[1]))
          => Len(last.ret) = 0

C2_Witness ==
    /\ last.op = "compare_jobs"
    /\ request.job_codes = <<"AI002">>
    /\ last.ret = <<>>

\* C3: compare_jobs returns one row per input position whose code resolves,
\* in input order; the other positions give no row.
C3_OneRowPerResolvingPosition ==
    last.op = "compare_jobs" =>
        LET resolving == SelectSeq(request.job_codes, Resolves)
        IN  /\ Len(last.ret) = Len(resolving)
            /\ \A i \in 1..Len(last.ret) :
                  /\ last.ret[i].name = sample_jobs[resolving[i]].job_name
                  /\ last.ret[i].field = sample_jobs[resolving[i]].field

C3_Witness ==
    /\ last.op = "compare_jobs"
    /\ request.job_codes = <<"BIO001", "ZZZ999", "AI001">>
    /\ Len(last.ret) = 2

-----------------------------------------------------------------------------
(* Properties of search. *)

\* C4: for a non-blank keyword, search_jobs_by_keyword returns exactly the
\* candidates whose name contains the keyword, compared case-insensitively,
\* in candidate order; with no match the result is the empty sequence.
C4_NonBlankKeywordFilters ==
    (last.op = "search_jobs_by_keyword" /\ ~IsBlank(request.keyword)) =>
        LET Matches(job) == MatchesIgnoringCase(job.name, request.keyword)
        IN  last.ret = SelectSeq(Candidates(request.field), Matches)

C4_Witness ==
    /\ last.op = "search_jobs_by_keyword"
    /\ request.keyword = <<97, 105>>
    /\ request.field = None
    /\ Len(last.ret) = 3
    /\ last.ret[1].code = "AI001"
    /\ last.ret[2].code = "AI004"
    /\ last.ret[3].code = "BIO005"

\* C5: search_jobs_by_keyword("", None) returns every summary of every
\* field exactly once: the per-field listings, concatenated in the order of
\* the fields in all_jobs.
C5_EmptySearchListsWholeCatalog ==
    (last.op = "search_jobs_by_keyword" /\ request.keyword = <<>>
        /\ request.field = None) =>
        /\ Len(last.ret) = ListedBefore(Len(all_jobs))
        /\ \A f \in 1..Len(all_jobs) : \A j \in 1..Len(all_jobs[f][2]) :
              last.ret[ListedBefore(f - 1) + j] = all_jobs[f][2][j]
        /\ \A a, b \in 1..Len(last.ret) : a # b => last.ret[a] # last.ret[b]

C5_Witness ==
    /\ last.op = "search_jobs_by_keyword"
    /\ request.keyword = <<>>
    /\ request.field = None
    /\ Len(last.ret) = 86

\* C6: for a blank keyword (empty or whitespace only) search returns the
\* whole candidate set, as it does for the empty keyword.
C6_BlankKeywordReturnsAllCandidates ==
    (last.op = "search_jobs_by_keyword" /\ IsBlank(request.keyword)) =>
        last.ret = search_jobs_by_keyword(<<>>, request.field, last.resp)

\* C7, as stated: for every keyword k and field, search(k), search(k.upper())
\* and search(k.lower()) return the same sequence.
C7_AnyKeywordCaseInsensitive ==
    last.op = "search_jobs_by_keyword" =>
        /\ last.ret = search_jobs_by_keyword(Upper(request.keyword),
                                             request.field, last.resp)
        /\ last.ret = search_jobs_by_keyword(Lower(request.keyword),
                                             request.field, last.resp)

\* The keyword's upper-case form lower-cases to the keyword's lower-case
\* form; true of ASCII and Hangul text, false of U+0131, whose upper-case
\* form is "I".
CaseRoundTrips(keyword) == Lower(Upper(keyword)) = Lower(keyword)

\* C7, amended: the same, for every keyword whose case mappings round-trip.
C7_RoundTripKeywordCaseInsensitive ==
    (last.op = "search_jobs_by_keyword" /\ CaseRoundTrips(request.keyword)) =>
        /\ last.ret = search_jobs_by_keyword(Upper(request.keyword),
                                             request.field, last.resp)
        /\ last.ret = search_jobs_by_keyword(Lower(request.keyword),
                                             request.field, last.resp)

C7_Witness ==
    /\ last.op = "search_jobs_by_keyword"
    /\ request.keyword = <<97, 73>>
    /\ Upper(request.keyword) # request.keyword
    /\ Lower(request.keyword) # request.keyword
    /\ Len(last.ret) > 0

\* C8: with a catalog field name as the field argument, the candidates are
\* that field's listing: every summary returned is of that listing and has
\* that field, and the empty keyword returns the listing itself.
C8_RecognizedFieldRestricts ==
    (last.op = "search_jobs_by_keyword" /\ ~Falsy(request.field)
        /\ \E f \in 1..Len(all_jobs) : all_jobs[f][1] = request.field) =>
        \E f \in 1..Len(all_jobs) :
            /\ all_jobs[f][1] = request.field
            /\ Range(last.ret) \subseteq Range(all_jobs[f][2])
            /\ \A i \in 1..Len(last.ret) : last.ret[i].field = request.field
            /\ request.keyword = <<>> => last.ret = all_jobs[f][2]

C8_Witness ==
    /\ last.op = "search_jobs_by_keyword"
    /\ request.field = FIELD_BIO
    /\ request.keyword = <<97, 105>>
    /\ Len(last.ret) = 1
    /\ last.ret[1].code = "BIO005"

\* C9: get_industry_jobs of a name that is no catalog field name returns
\* the empty sequence.
C9_UnknownIndustryListsNothing ==
    (last.op = "get_industry_jobs"
        /\ ~\E f \in 1..Len(all_jobs) : all_jobs[f][1] = request.field) =>
        last.ret = <<>>

-----------------------------------------------------------------------------
(* Properties of the WorkNetAPI client with a credential. *)

\* C10: with a credential configured, when the external call fails
\* (connection error, timeout, HTTP error status, body that is not JSON),
\* get_job_info returns what the sample lookup returns for the code and
\* search_jobs what the sample search returns for the keyword and field; no
\* exception reaches the caller.
C10_FailedCallFallsBackToSample ==
    (~Falsy(api_key) /\ last.resp \in Failures) =>
        /\ last.op = "get_job_info" =>
              last.ret = IF request.job_code \in DOMAIN sample_jobs
                         THEN sample_jobs[request.job_code]
                         ELSE <<>>
        /\ last.op = "search_jobs" =>
              last.ret = get_sample_jobs_by_keyword(request.keyword, request.field)

C10_Witness ==
    /\ api_key = SomeKey
    /\ last.op = "search_jobs"
    /\ last.resp = Failure("Timeout")
    /\ request.keyword = <<97, 105>>
    /\ request.field = None
    /\ Len(last.ret) = 3

\* The parsed body maps onto an occupation record: a JSON object with the
\* fields of a record.
IsRecordShaped(resp) ==
    /\ resp.type = "dict"
    /\ {"job_code", "job_name", "field", "career_path"} \subseteq DOMAIN resp.body

\* The parsed body maps onto a list of jobs: a JSON object with a 'jobs' list.
IsJobListShaped(resp) ==
    /\ resp.type = "dict"
    /\ "jobs" \in DOMAIN resp.body

\* C11: with a credential configured, a successful answer whose body does not
\* map onto an occupation record (get_job_info) or onto a list of jobs
\* (search_jobs) is treated as a failure: the caller gets the sample data
\* for the same arguments, not the body and not an empty result made of it.
C11_MismatchedPayloadFallsBackToSample ==
    (~Falsy(api_key) /\ last.resp \in Payloads) =>
        /\ (last.op = "get_job_info" /\ ~IsRecordShaped(last.resp)) =>
              last.ret = IF request.job_code \in DOMAIN sample_jobs
                         THEN sample_jobs[request.job_code]
                         ELSE <<>>
        /\ (last.op = "search_jobs" /\ ~IsJobListShaped(last.resp)) =>
              last.ret = get_sample_jobs_by_keyword(request.keyword, request.field)

-----------------------------------------------------------------------------
(* Properties of the per-field cache. *)

\* C12: the cache of get_industry_jobs is never invalidated: in every step an
\* entry the cache holds stays in the cache with the same value, and a
\* get_industry_jobs call returns the entry of its field, so every later
\* call for the field returns what the first call returned.
C12_CacheEntriesNeverChange ==
    [][/\ \A f \in DOMAIN _cache :
             f \in DOMAIN _cache' /\ _cache'[f] = _cache[f]
       /\ last'.op = "get_industry_jobs" =>
             (request.field \in DOMAIN _cache'
                /\ last'.ret = _cache'[request.field])
       /\ (last.op = "get_industry_jobs" /\ last'.op = "get_industry_jobs") =>
             last'.ret = last.ret]_vars

C12_Witness ==
    /\ last.op = "get_industry_jobs"
    /\ last.n = 2
    /\ request.field = FIELD_AI
    /\ DOMAIN _cache = IndustryInputs
    /\ last.ret = _cache[FIELD_AI]
    /\ Len(last.ret) > 0
    /\ _cache[FIELD_BIO] # _cache[FIELD_AI]

\* Every call in flight has returned.
AllReturned == \A t \in DOMAIN threads : threads[t].pc = "done"

\* C13: however the lines of the calls of several threads for one field of
\* the catalog interleave, starting with no entry for it, every call returns
\* all_jobs[field], and once all have returned the cache entry of the field
\* is all_jobs[field].
C13_RacingCallsReturnTheListing ==
    \A i \in 1..Len(all_jobs) :
        request.field = all_jobs[i][1] =>
            /\ \A t \in DOMAIN threads :
                  threads[t].pc = "done" => threads[t].ret = all_jobs[i][2]
            /\ (threads # <<>> /\ AllReturned) =>
                  (request.field \in DOMAIN _cache
                     /\ _cache[request.field] = all_jobs[i][2])

\* Two threads have found no entry and stored the listing, one after the
\* other, and a third has returned the stored entry.
C13_Witness ==
    /\ request.field = FIELD_BIO
    /\ AllReturned
    /\ \E a, b, c \in DOMAIN threads :
          /\ a # b
          /\ threads[a].jobs # <<>>
          /\ threads[b].jobs # <<>>
          /\ threads[c].jobs = <<>>
          /\ threads[c].ret = all_jobs[2][2]

-----------------------------------------------------------------------------
(* Properties of the career path and of the education mapping. *)

\* The labels written one after the other with " -> " between them, the
\* arrow being U+2192.
RECURSIVE JoinStages(_)
JoinStages(steps) ==
    IF Len(steps) = 0
    THEN <<>>
    ELSE IF Len(steps) = 1
    THEN steps[1]
    ELSE steps[1] \o <<32, Arrow, 32>> \o JoinStages(Tail(steps))

\* A stage label: not empty, no whitespace at either end, no separator.
IsStageLabel(s) ==
    /\ s # <<>>
    /\ s[1] \notin Whitespace
    /\ s[Len(s)] \notin Whitespace
    /\ \A i \in 1..Len(s) : s[i] # Arrow

\* C14: get_career_path_data(code) is empty exactly when the code does not
\* resolve; for a resolving code its steps are the stage labels of the
\* record's career_path in their order: trimmed labels without a separator
\* which, joined by the separator, give the career_path back.
C14_StepsAreTheTrimmedStages ==
    last.op = "get_career_path_data" =>
        /\ Empty(last.ret) <=> ~Resolves(request.job_code)
        /\ Resolves(request.job_code) =>
              /\ \A i \in 1..Len(last.ret.steps) : IsStageLabel(last.ret.steps[i])
              /\ JoinStages(last.ret.steps) = sample_jobs[request.job_code].career_path
              /\ last.ret.job_name = sample_jobs[request.job_code].job_name

C14_Witness ==
    /\ last.op = "get_career_path_data"
    /\ request.job_code = "AI001"
    /\ Len(last.ret.steps) = 5
    /\ last.ret.steps[1] = <<45824, 54617, 32, 51204, 44277>>
    /\ last.ret.steps[5] = <<65, 73, 32, 50672, 44396, 50896, 47, 47532, 45908>>

\* The record has no career_path, or one of whitespace only.
BlankOrMissingPath(job) ==
    "career_path" \in DOMAIN job =>
        \A i \in 1..Len(job.career_path) : job.career_path[i] \in Whitespace

\* C15: for a record whose career_path is blank or missing, the path
\* projection is not empty and its steps is the empty sequence.
C15_BlankPathGivesNoSteps ==
    (last.op = "CareerPathOf" /\ BlankOrMissingPath(request.job)) =>
        /\ ~Empty(last.ret)
        /\ last.ret.steps = <<>>

\* C16: for every career_path the steps of the path projection contain no
\* empty string.
C16_NoEmptyStep ==
    last.op = "CareerPathOf" =>
        \A i \in 1..Len(last.ret.steps) : last.ret.steps[i] # <<>>

\* C17: get_job_to_major_mapping(code) is empty exactly when the code does
\* not resolve, which is when get_career_path_data(code) is empty; otherwise
\* it has the fields job_name, related_majors, high_school_subjects,
\* career_path and required_education, with the values of the record.
C17_MappingMirrorsTheRecord ==
    /\ last.op = "get_job_to_major_mapping" =>
          /\ Empty(last.ret) <=> ~Resolves(request.job_code)
          /\ Empty(last.ret) <=> Empty(get_career_path_data(request.job_code, NoCall))
          /\ Resolves(request.job_code) =>
                LET job == sample_jobs[request.job_code]
                IN  last.ret = [job_name |-> job.job_name,
                                related_majors |-> job.related_majors,
                                high_school_subjects |-> job.high_school_subjects,
                                career_path |-> job.career_path,
                                required_education |-> job.required_education]
    /\ last.op = "get_career_path_data" =>
          (Empty(last.ret) <=> Empty(get_job_to_major_mapping(request.job_code, NoCall)))

C17_Witness ==
    /\ last.op = "get_job_to_major_mapping"
    /\ request.job_code = "PSY001"
    /\ ~Empty(last.ret)
    /\ last.ret.career_path = sample_jobs["PSY001"].career_path
    /\ Len(last.ret.related_majors) > 0

-----------------------------------------------------------------------------
(* Properties of the comparison rows and of the comparison page. *)

\* C18: every row of compare_jobs has exactly the fields name, field,
\* required_education, salary_range, outlook, growth_rate and
\* employment_rate, each the stored value of the record of the row's code,
\* unconverted: the "%" of the rates and a non-numeric employment_rate stay.
C18_RowsCarryTheStoredValues ==
    last.op = "compare_jobs" =>
        LET resolving == SelectSeq(request.job_codes, Resolves)
        IN  \A i \in 1..Len(last.ret) :
                LET row == last.ret[i]
                    job == sample_jobs[resolving[i]]
                IN  /\ DOMAIN row = {"name", "field", "required_education",
                                     "salary_range", "outlook", "growth_rate",
                                     "employment_rate"}
                    /\ row.name = job.job_name
                    /\ row.field = job.field
                    /\ row.required_education = job.required_education
                    /\ row.salary_range = job.salary_range
                    /\ row.outlook = job.outlook
                    /\ row.growth_rate = job.growth_rate
                    /\ row.employment_rate = job.employment_rate

\* AI001 with "95%" and MDA001 with a word for the employment rate.
C18_Witness ==
    /\ last.op = "compare_jobs"
    /\ request.job_codes = <<"AI001", "MDA001">>
    /\ Len(last.ret) = 2
    /\ last.ret[1].employment_rate = <<57, 53, 37>>
    /\ last.ret[2].employment_rate = <<51088, 50689, 50629>>
    /\ last.ret[2].growth_rate = <<49, 53, 37>>

\* C19: for a list of two or more catalog codes the comparison page
\* produces the table, the radar chart and the salary chart, whatever the
\* records hold: no exception ends the run, the radar chart has a trace for
\* every row of the table, and a salary range that cannot be read gives the
\* score 3 in the radar chart.
C19_ComparisonPageNeverFails ==
    (last.op = "comparison_page" /\ Len(request.job_codes) >= 2) =>
        /\ last.ret.exc = NoException
        /\ last.ret.outputs = <<"table", "radar", "salary">>
        /\ Len(last.ret.radar) = Len(last.ret.table)
        /\ \A i \in 1..Len(last.ret.radar) :
              last.ret.table[i].salary_range = sample_jobs["MDA001"].salary_range
                  => last.ret.radar[i].r[4] = [num |-> 3, den |-> 1]

-----------------------------------------------------------------------------
(* Properties of repeated calls. *)

\* C20: search_jobs_by_keyword and compare_jobs called again with the same
\* arguments return what they returned before, whatever get_industry_jobs
\* calls of other sessions have filled the cache in between.
C20_RepeatedCallReturnsTheSame ==
    [][(last.op \in {"search_jobs_by_keyword", "compare_jobs"}
          /\ last'.op = last.op)
        => last'.ret = last.ret]_vars

\* The second search for "ai" in a field whose listing is in the cache by
\* then; the listing itself is longer than the result.
C20_Witness ==
    /\ last.op = "search_jobs_by_keyword"
    /\ last.n = 2
    /\ request.keyword = <<97, 105>>
    /\ request.field = FIELD_AI
    /\ FIELD_AI \in DOMAIN _cache
    /\ Len(last.ret) = 2
    /\ Len(_cache[FIELD_AI]) > 2

-----------------------------------------------------------------------------
(* Properties of the catalog and of the session. *)

\* The actions on the session's comparison list.
ListActions == {"add_home", "add_job_search", "add_comparison", "remove", "reset"}

\* The codes of the summaries of a listing.
CodesOf(jobs) == {jobs[i].code : i \in 1..Len(jobs)}

\* C21: no operation changes the catalog.  The records and listings are
\* literals read afresh by every call; the one copy that lives on is the
\* cache.  In every step each listing the cache holds is the listing of the
\* catalog, content and order, and stays; only get_industry_jobs adds to the
\* cache; an add, remove or reset leaves the cache as it is, and the code it
\* was about is still listed and still has the record it had.
C21_CatalogUnchanged ==
    [][/\ \A f \in DOMAIN _cache' : _cache'[f] = Candidates(f)
       /\ \A f \in DOMAIN _cache : f \in DOMAIN _cache' /\ _cache'[f] = _cache[f]
       /\ last' # last => (_cache' = _cache \/ last'.op = "get_industry_jobs")
       /\ (last' # last /\ last'.op \in ListActions) =>
             /\ _cache' = _cache
             /\ last'.op # "reset" =>
                   /\ \E f \in 1..Len(all_jobs) : \E i \in 1..Len(all_jobs[f][2]) :
                         all_jobs[f][2][i].code = last'.arg
                   /\ get_job_details(last'.arg, NoCall)
                         = get_sample_job_data(last'.arg)]_vars

\* AI001 has been removed from the list while the listing of its field is
\* in the cache: the listing still has it.
C21_Witness ==
    /\ last.op = "remove"
    /\ last.arg = "AI001"
    /\ session.selected_jobs_for_comparison = <<"MDA001">>
    /\ FIELD_AI \in DOMAIN _cache
    /\ "AI001" \in CodesOf(_cache[FIELD_AI])
    /\ Len(_cache[FIELD_AI]) = Len(all_jobs[1][2])

\* The methods that return summaries.
ListingMethods == {"search_jobs_by_keyword", "get_industry_jobs"}

\* No two summaries of all_jobs, at different places, have the same code.
SummaryCodesDiffer ==
    \A f, g \in 1..Len(all_jobs) :
        \A i \in 1..Len(all_jobs[f][2]) : \A j \in 1..Len(all_jobs[g][2]) :
            all_jobs[f][2][i].code = all_jobs[g][2][j].code => (f = g /\ i = j)

\* Every record of sample_jobs has the job_code it is stored under.
RecordsKeyedByOwnCode ==
    \A code \in DOMAIN sample_jobs : sample_jobs[code].job_code = code

\* Every summary of all_jobs has the field it is listed under.
SummariesListedUnderOwnField ==
    \A f \in 1..Len(all_jobs) : \A i \in 1..Len(all_jobs[f][2]) :
        all_jobs[f][2][i].field = all_jobs[f][1]

\* C22: no code occurs in two summaries of all_jobs, in one field or across
\* fields, so no listing or search result has a code twice; and every record
\* of sample_jobs is stored under its own job_code, so a lookup returns the
\* record of the code asked for.
C22_CodesAreUnique ==
    /\ SummaryCodesDiffer
    /\ RecordsKeyedByOwnCode
    /\ last.op \in ListingMethods =>
          \A i, j \in 1..Len(last.ret) :
              last.ret[i].code = last.ret[j].code => i = j
    /\ (last.op = "get_job_details" /\ ~Empty(last.ret)) =>
          last.ret.job_code = request.job_code

\* The whole catalog listed: as many codes as summaries.
C22_Witness ==
    /\ last.op = "search_jobs_by_keyword"
    /\ request.keyword = <<>>
    /\ request.field = None
    /\ Len(last.ret) = ListedBefore(Len(all_jobs))
    /\ Cardinality(CodesOf(last.ret)) = Len(last.ret)

EveryRecordHasStages ==
    \A code \in DOMAIN sample_jobs :
        LET steps == CareerPathOf(sample_jobs[code]).steps
        IN  /\ Len(steps) >= 1
            /\ \A i \in 1..Len(steps) : steps[i] # <<>>

\* C24: for every record of the catalog, parsing its career_path yields at
\* least one stage label and every stage label is non-empty; so does every
\* call of get_career_path_data with a code that resolves.
C24_EveryRecordHasStages ==
    /\ EveryRecordHasStages
    /\ (last.op = "get_career_path_data" /\ Resolves(request.job_code)) =>
          /\ Len(last.ret.steps) >= 1
          /\ \A i \in 1..Len(last.ret.steps) : last.ret.steps[i] # <<>>

C24_Witness ==
    /\ last.op = "get_career_path_data"
    /\ request.job_code = "BIZ001"
    /\ Len(last.ret.steps) = 6
    /\ \A i \in 1..6 : Len(last.ret.steps[i]) >= 1

\* C25: every summary that search_jobs_by_keyword or get_industry_jobs
\* returns has a code that resolves: get_job_details of the code is a
\* non-empty record.
C25_EveryListedCodeResolves ==
    last.op \in ListingMethods =>
        \A i \in 1..Len(last.ret) :
            ~Empty(get_job_details(last.ret[i].code, NoCall))

-----------------------------------------------------------------------------
(* Properties of the session's comparison list. *)

AddActions == {"add_home", "add_job_search", "add_comparison"}

\* The sequence without the code.
Without(selected, code) == SelectSeq(selected, LAMBDA c : c # code)

\* C26: after any sequence of add, remove and reset actions taken from any
\* page, the comparison list of the session holds at most 5 codes.
C26_AtMostFiveCodes ==
    Len(session.selected_jobs_for_comparison) <= 5

\* C27: the comparison list never holds a code twice; an add of a code that
\* is in the list leaves the list as it is, a remove takes the code out and
\* leaves the other codes in place and in order, and a reset empties it.
C27_NoCodeTwice ==
    [][LET old == session.selected_jobs_for_comparison
           new == session'.selected_jobs_for_comparison
       IN  /\ \A i, j \in 1..Len(new) : new[i] = new[j] => i = j
           /\ (/\ last' # last
               /\ last'.op \in AddActions
               /\ \E i \in 1..Len(old) : old[i] = last'.arg) => new = old
           /\ (last' # last /\ last'.op \in AddActions) =>
                  (new = old \/ new = Append(old, last'.arg))
           /\ (last' # last /\ last'.op = "remove") =>
                  /\ new = Without(old, last'.arg)
                  /\ Len(new) = Len(old) - 1
           /\ (last' # last /\ last'.op = "reset") => new = <<>>]_vars

\* The code added a second time: the list kept its first entry in place.
C27_Witness ==
    /\ last.op = "add_home"
    /\ last.arg = "AI001"
    /\ session.selected_jobs_for_comparison = <<"AI001", "BIO001", "MDA001">>

-----------------------------------------------------------------------------
(* The cached manager against an uncached one. *)

\* C28: get_industry_jobs(field) returns, on its first and on every later
\* call and whatever other fields were listed in between, the sequence that
\* search_jobs_by_keyword("", field) computes without the cache.
C28_CachedEqualsUncached ==
    last.op = "get_industry_jobs" =>
        /\ last.ret = search_jobs_by_keyword(<<>>, request.field, NoCall)
        /\ request.field \in DOMAIN _cache
        /\ _cache[request.field] = last.ret

\* The second call for a field, answered with the listings of two other
\* names in the cache.
C28_Witness ==
    /\ last.op = "get_industry_jobs"
    /\ last.n = 2
    /\ request.field = FIELD_BIO
    /\ FIELD_AI \in DOMAIN _cache
    /\ UnknownField \in DOMAIN _cache
    /\ last.ret = all_jobs[2][2]
    /\ last.ret # _cache[FIELD_AI]

-----------------------------------------------------------------------------
(* The timeline of the career path page. *)

\* C29: for every catalog occupation the page shows, the timeline table is
\* built, with three columns of equal length: one duration entry and one
\* cumulative-period entry per step of the career path, also for a path of
\* more than five steps.
C29_TimelineHasARowPerStep ==
    (last.op = "career_path_page" /\ Resolves(last.ret.code)) =>
        /\ last.ret.exc = NoException
        /\ last.ret.timeline.steps = last.ret.steps
        /\ Len(last.ret.timeline.duration) = Len(last.ret.steps)
        /\ Len(last.ret.timeline.cumulative) = Len(last.ret.steps)

-----------------------------------------------------------------------------
(* Properties of the session's search history. *)

\* The place of a query in the order of first submission.
QueryNumber(search_query) == Len(search_query)

NoQueryTwice(history) ==
    \A i, j \in 1..Len(history) : history[i] = history[j] => i = j

InHistory(history, search_query) ==
    \E i \in 1..Len(history) : history[i] = search_query

\* C30 as stated: the history holds at most 10 queries, none twice, ordered
\* by first submission with the latest first, and a search for a query that
\* is in the history leaves it unchanged.
C30_OrderedByFirstSubmission ==
    [][LET old == session.search_history
           new == session'.search_history
       IN  /\ Len(new) <= HistoryLimit
           /\ NoQueryTwice(new)
           /\ \A i, j \in 1..Len(new) :
                 i < j => QueryNumber(new[i]) > QueryNumber(new[j])
           /\ (last'.op = "search" /\ InHistory(old, last'.arg)) => new = old]_vars

\* C30 (amended): the history holds at most 10 queries, none twice; a search
\* for a query that is in the history, or with no text, leaves it unchanged;
\* a search for any other query, also one that was in the history before
\* and fell off its end, puts the query first and moves the others down one
\* place in their order, the one pushed past the tenth place falling off.
C30_OrderedByLatestEntry ==
    [][LET old == session.search_history
           new == session'.search_history
           search_query == last'.arg
       IN  /\ Len(new) <= HistoryLimit
           /\ NoQueryTwice(new)
           /\ last'.op = "search" =>
                 IF search_query = <<>> \/ InHistory(old, search_query)
                 THEN new = old
                 ELSE /\ new[1] = search_query
                      /\ Len(new) = IF Len(old) < HistoryLimit
                                    THEN Len(old) + 1
                                    ELSE HistoryLimit
                      /\ \A i \in 2..Len(new) : new[i] = old[i - 1]]_vars

\* The first query fell off when the eleventh came, was searched for again
\* and stands in front of the eleventh.
C30_Witness ==
    /\ last.op = "search"
    /\ last.arg = Query(1)
    /\ Len(session.search_history) = HistoryLimit
    /\ session.search_history[1] = Query(1)
    /\ session.search_history[2] = Query(NumQueries)
    /\ session.search_history[HistoryLimit] = Query(3)

====
